---- MODULE Spec2Model ----
(***************************************************************************)
(* Verification model of the ts-share synchronisation engine.              *)
(*                                                                         *)
(*   SpecLock    the sync lease of services/data_sync_service.py           *)
(*               (_acquire_lock, _release_lock, is_syncing), one step per  *)
(*               system call, for threads of several processes that share  *)
(*               one data directory.                                       *)
(*   Spec        one service instance running sync_all_stocks against the  *)
(*               Local Store (daily_data), one step per statement that     *)
(*               touches the store, the remote source or the lease.        *)
(*   SpecRemote  the rate-limit-protected loop of run_full_sync in         *)
(*               scripts/remote_sync.py.                                   *)
(***************************************************************************)
EXTENDS Integers, Sequences, FiniteSets, Bags, TLC

\* ------------------------------------------------------------------------
\* Bounds
\* ------------------------------------------------------------------------
NumProcs == 2
NumThreads == 2
MaxDates == 2
NumSymbols == 2
MaxRuns == 1
NumPending == 100
HistLen == 60
NumStocks == 10
MaxApply == 2
NumListed == 9
MaxChain == 2

\* ------------------------------------------------------------------------
\* State
\* ------------------------------------------------------------------------
\* The sync lease as the operating system and each process see it
VARIABLES
    lk_pc,          \* runner -> position in sync_all_stocks / _acquire_lock / _release_lock
    sync_lock,      \* process -> holder of the module-level threading.Lock, or <<>> when free
    is_syncing_flag,\* process -> DataSyncService._is_syncing (class attribute)
    lock_fd,        \* runner -> inode its self._lock_fd is open on, 0 for None / closed
    lock_file,      \* inode linked at lock_file_path, 0 when the path does not exist
    lock_content,   \* inode -> pid recorded in the file, 0 when it holds no readable record
    flock_holder,   \* inode -> runner whose open file description holds LOCK_EX, or <<>>
    alive,          \* process -> the process exists
    lk_result,      \* runner -> outcome of its last sync_all_stocks call
    lk_rivals       \* runner -> the runs that held the lease when its call started
                    \*           and have held it ever since

lockVars == <<lk_pc, sync_lock, is_syncing_flag, lock_fd, lock_file, lock_content,
              flock_holder, alive, lk_result, lk_rivals>>

\* One service instance and the Local Store
VARIABLES
    pc,             \* position of the service instance in sync_all_stocks
    runs,           \* sync_all_stocks calls made so far
    force,          \* the force argument of the current call
    range,          \* <<start_date, end_date>> of the current call
    trading_days,   \* the local list trading_days
    idx,            \* position of the per-date loop in trading_days
    stop_requested, \* self._stop_requested
    db,             \* daily_data as committed: what every reader sees
    txn,            \* daily_data as the open save_to_database connection sees it
    df,             \* the merged frame of the date in progress
    row_k,          \* next row of df that executemany writes
    stock_basic,    \* codes in the stock_basic table
    metadata,       \* contents of metadata.json
    outcome,        \* exit path / return value of the last call
    callback,       \* last progress_callback arguments
    lease,          \* who holds the sync lease: "none", "self", "other"
    calendar,       \* dates the trading calendar returned for the call
    filtered,       \* the call got past the incremental filter / force delete
    fetched,        \* dates the call passed to fetch_and_merge_by_date
    upserted,       \* dates whose save_to_database committed in the call
    merged,         \* date -> codes of the frame merged for it in the call
    run_written,    \* keys whose committed row was written by the call
    stop_at,        \* the call's progress when request_stop arrived, before or in its loop
    db_before       \* daily_data when the call started

syncVars == <<pc, runs, force, range, trading_days, idx, stop_requested, db, txn, df, row_k,
              stock_basic, metadata, outcome, callback, lease, calendar,
              filtered, fetched, upserted, merged, run_written, stop_at, db_before>>

\* run_full_sync of scripts/remote_sync.py
VARIABLES
    rf_pc,              \* position in run_full_sync
    rf_i,               \* the loop index i (codes of pending_codes processed so far)
    consecutive_fails,  \* the local consecutive_fails
    rf_cooled,          \* seconds slept in cooldown since the last check_api_health
    rf_failed,          \* stats["failed"] > 0, all that the run reads of the count
    rf_saved,           \* the number of processed codes the progress file covers
    rf_end              \* how the loop ended

remoteVars == <<rf_pc, rf_i, consecutive_fails, rf_cooled, rf_failed, rf_saved, rf_end>>

\* recompute_technical_indicators on a stored history
VARIABLES
    rc_table,           \* daily_data
    rc_before,          \* daily_data as it was when the last recompute call started
    rc_result           \* how the last recompute call ended

recomputeVars == <<rc_table, rc_before, rc_result>>

\* one rule instance and its step tracker
VARIABLES
    ru_rule,            \* the class of the instance
    ru_params,          \* its parameters
    ru_pc,              \* position in apply
    ru_df,              \* the snapshot apply was called with
    ru_provider,        \* a history_provider was passed
    ru_has_ind,         \* the snapshot carries the columns ma20, ma60, vma5, qfq_收盘
    ru_result,          \* the local result
    ru_steps,           \* tracker.steps
    ru_current,         \* tracker._current_count
    ru_stages,          \* the filtering stages this run has performed, with the rows each removed
    ru_outcome,         \* how the per-symbol check of this run ended for each candidate
    ru_asked,           \* the get_history calls of this run: <<code, what the provider did>>
    ru_runs             \* apply calls made on the instance

ruleVars == <<ru_rule, ru_params, ru_pc, ru_df, ru_provider, ru_has_ind, ru_result,
              ru_steps, ru_current, ru_stages, ru_outcome, ru_asked, ru_runs>>

\* a chain of Filter Library predicates applied to one snapshot
VARIABLES
    fl_S,               \* the snapshot the chain started from
    fl_cur,             \* the frame the last predicate returned
    fl_applied          \* the predicates applied so far, in order

filterVars == <<fl_S, fl_cur, fl_applied>>

vars == <<lockVars, syncVars, remoteVars, recomputeVars, ruleVars, filterVars>>

\* what the actions of one specification leave alone
notLock == <<syncVars, remoteVars, recomputeVars, ruleVars, filterVars>>
notSync == <<lockVars, remoteVars, recomputeVars, ruleVars, filterVars>>
notRemote == <<lockVars, syncVars, recomputeVars, ruleVars, filterVars>>
notRecompute == <<lockVars, syncVars, remoteVars, ruleVars, filterVars>>
notRules == <<lockVars, syncVars, remoteVars, recomputeVars, filterVars>>
notFilters == <<lockVars, syncVars, remoteVars, recomputeVars, ruleVars>>

\* ------------------------------------------------------------------------
\* The sync lease: threads, processes and the lock file
\* ------------------------------------------------------------------------
Procs == 1..NumProcs

\* Every thread of every process but the last; the last process runs one
\* thread.  Each thread owns its DataSyncService instance (pages/3_settings.py
\* builds one per script run).
Runners == {<<p, t>> : p \in Procs, t \in 1..NumThreads} \ {<<NumProcs, t>> : t \in 2..NumThreads}

ProcOf(r) == r[1]

\* inode numbers of the files that were ever linked at lock_file_path;
\* 0 stands for "no file" / "no descriptor".
Inodes == 1..(Cardinality(Runners) + 1)

NoRunner == <<>>

\* A run holds the lease from the moment _acquire_lock returned True until
\* _release_lock is entered.
Holds(r) == lk_pc[r] = "body"

InitLock ==
    /\ lk_pc = [r \in Runners |-> "idle"]
    /\ sync_lock = [p \in Procs |-> NoRunner]
    /\ is_syncing_flag = [p \in Procs |-> FALSE]
    /\ lock_fd = [r \in Runners |-> 0]
    /\ lock_file = 0
    /\ lock_content = [i \in Inodes |-> 0]
    /\ flock_holder = [i \in Inodes |-> NoRunner]
    /\ alive = [p \in Procs |-> TRUE]
    /\ lk_result = [r \in Runners |-> "none"]
    /\ lk_rivals = [r \in Runners |-> {}]

\* An inode is referenced while it is linked at the path or some descriptor
\* is open on it; the file system frees it otherwise.
Referenced(i, path, fds) == i = path \/ \E r \in Runners : fds[r] = i

FreeInode == CHOOSE i \in Inodes :
                /\ ~Referenced(i, lock_file, lock_fd)
                /\ \A j \in Inodes : ~Referenced(j, lock_file, lock_fd) => i <= j

\* Contents of the inodes after the path and the descriptors changed.
Reclaim(content, path, fds) ==
    [i \in Inodes |-> IF Referenced(i, path, fds) THEN content[i] ELSE 0]

\* sync_all_stocks is called: the first statement of _acquire_lock is
\* _sync_lock.acquire(blocking=False).
AcquireThreadLock(r) ==
    /\ UNCHANGED notLock
    /\ lk_pc[r] = "idle"
    /\ alive[ProcOf(r)]
    /\ lk_rivals' = [lk_rivals EXCEPT ![r] = {o \in Runners \ {r} : Holds(o)}]
    /\ IF sync_lock[ProcOf(r)] = NoRunner
         THEN /\ sync_lock' = [sync_lock EXCEPT ![ProcOf(r)] = r]
              /\ lk_pc' = [lk_pc EXCEPT ![r] = "acq_open"]
              /\ lk_result' = [lk_result EXCEPT ![r] = "none"]
         ELSE /\ lk_result' = [lk_result EXCEPT ![r] = "already_running"]
              /\ UNCHANGED <<sync_lock, lk_pc>>
    /\ UNCHANGED <<is_syncing_flag, lock_fd, lock_file, lock_content, flock_holder, alive>>

\* self._lock_fd = open(self.lock_file_path, 'w'): creates the file or
\* truncates the one that is there; the descriptor a failed earlier attempt
\* left in self._lock_fd is dropped.
OpenLockFile(r) ==
    /\ UNCHANGED notLock
    /\ lk_pc[r] = "acq_open"
    /\ LET ino == IF lock_file # 0 THEN lock_file ELSE FreeInode
           fds == [lock_fd EXCEPT ![r] = ino]
       IN /\ lock_file' = ino
          /\ lock_fd' = fds
          /\ lock_content' = Reclaim([lock_content EXCEPT ![ino] = 0], ino, fds)
    /\ lk_pc' = [lk_pc EXCEPT ![r] = "acq_flock"]
    /\ UNCHANGED <<sync_lock, is_syncing_flag, flock_holder, alive, lk_result, lk_rivals>>

\* fcntl.flock(fd, LOCK_EX | LOCK_NB); on failure the except clause releases
\* _sync_lock, _acquire_lock returns False and sync_all_stocks reports
\* "已有任务运行" and returns False.
FlockLockFile(r) ==
    /\ UNCHANGED notLock
    /\ lk_pc[r] = "acq_flock"
    /\ IF flock_holder[lock_fd[r]] = NoRunner
         THEN /\ flock_holder' = [flock_holder EXCEPT ![lock_fd[r]] = r]
              /\ lk_pc' = [lk_pc EXCEPT ![r] = "acq_write"]
              /\ UNCHANGED <<sync_lock, lk_result>>
         ELSE /\ sync_lock' = [sync_lock EXCEPT ![ProcOf(r)] = NoRunner]
              /\ lk_pc' = [lk_pc EXCEPT ![r] = "idle"]
              /\ lk_result' = [lk_result EXCEPT ![r] = "already_running"]
              /\ UNCHANGED flock_holder
    /\ UNCHANGED <<is_syncing_flag, lock_fd, lock_file, lock_content, alive, lk_rivals>>

\* self._lock_fd.write(json.dumps({"pid": ..., "start_time": ...})); flush()
WriteLockInfo(r) ==
    /\ UNCHANGED notLock
    /\ lk_pc[r] = "acq_write"
    /\ lock_content' = [lock_content EXCEPT ![lock_fd[r]] = ProcOf(r)]
    /\ lk_pc' = [lk_pc EXCEPT ![r] = "acq_flag"]
    /\ UNCHANGED <<sync_lock, is_syncing_flag, lock_fd, lock_file, flock_holder, alive,
                   lk_result, lk_rivals>>

\* DataSyncService._is_syncing = True; return True
SetSyncingFlag(r) ==
    /\ UNCHANGED notLock
    /\ lk_pc[r] = "acq_flag"
    /\ is_syncing_flag' = [is_syncing_flag EXCEPT ![ProcOf(r)] = TRUE]
    /\ lk_pc' = [lk_pc EXCEPT ![r] = "body"]
    /\ UNCHANGED <<sync_lock, lock_fd, lock_file, lock_content, flock_holder, alive,
                   lk_result, lk_rivals>>

\* The try block of sync_all_stocks (remote fetches and store writes; the
\* specification Spec below models it), left on any of its exit paths; the
\* finally clause then calls _release_lock.
RunBody(r) ==
    /\ UNCHANGED notLock
    /\ lk_pc[r] = "body"
    /\ lk_result' = [lk_result EXCEPT ![r] = "ran"]
    /\ lk_rivals' = [o \in Runners |-> lk_rivals[o] \ {r}]
    /\ lk_pc' = [lk_pc EXCEPT ![r] = "rel_flag"]
    /\ UNCHANGED <<sync_lock, is_syncing_flag, lock_fd, lock_file, lock_content,
                   flock_holder, alive>>

\* _release_lock: DataSyncService._is_syncing = False
ClearSyncingFlag(r) ==
    /\ UNCHANGED notLock
    /\ lk_pc[r] = "rel_flag"
    /\ is_syncing_flag' = [is_syncing_flag EXCEPT ![ProcOf(r)] = FALSE]
    /\ lk_pc' = [lk_pc EXCEPT ![r] = IF lock_fd[r] # 0 THEN "rel_unlock" ELSE "rel_thread"]
    /\ UNCHANGED <<sync_lock, lock_fd, lock_file, lock_content, flock_holder, alive,
                   lk_result, lk_rivals>>

\* fcntl.flock(fd, LOCK_UN)
UnlockLockFile(r) ==
    /\ UNCHANGED notLock
    /\ lk_pc[r] = "rel_unlock"
    /\ flock_holder' = [flock_holder EXCEPT ![lock_fd[r]] =
                           IF @ = r THEN NoRunner ELSE @]
    /\ lk_pc' = [lk_pc EXCEPT ![r] = "rel_close"]
    /\ UNCHANGED <<sync_lock, is_syncing_flag, lock_fd, lock_file, lock_content, alive,
                   lk_result, lk_rivals>>

\* self._lock_fd.close()
CloseLockFile(r) ==
    /\ UNCHANGED notLock
    /\ lk_pc[r] = "rel_close"
    /\ LET fds == [lock_fd EXCEPT ![r] = 0]
       IN /\ lock_fd' = fds
          /\ lock_content' = Reclaim(lock_content, lock_file, fds)
    /\ lk_pc' = [lk_pc EXCEPT ![r] = "rel_remove"]
    /\ UNCHANGED <<sync_lock, is_syncing_flag, lock_file, flock_holder, alive,
                   lk_result, lk_rivals>>

\* if os.path.exists(path): os.remove(path) -- unlinks whatever file is at
\* the path now; errors are swallowed.
RemoveLockFile(r) ==
    /\ UNCHANGED notLock
    /\ lk_pc[r] = "rel_remove"
    /\ lock_file' = 0
    /\ lock_content' = Reclaim(lock_content, 0, lock_fd)
    /\ lk_pc' = [lk_pc EXCEPT ![r] = "rel_thread"]
    /\ UNCHANGED <<sync_lock, is_syncing_flag, lock_fd, flock_holder, alive,
                   lk_result, lk_rivals>>

\* _sync_lock.release(); sync_all_stocks returns
ReleaseThreadLock(r) ==
    /\ UNCHANGED notLock
    /\ lk_pc[r] = "rel_thread"
    /\ sync_lock' = [sync_lock EXCEPT ![ProcOf(r)] = NoRunner]
    /\ lk_pc' = [lk_pc EXCEPT ![r] = "idle"]
    /\ UNCHANGED <<is_syncing_flag, lock_fd, lock_file, lock_content, flock_holder, alive,
                   lk_result, lk_rivals>>

\* A process dies (kill, power loss): the kernel closes its descriptors and
\* drops their flocks; the lock file stays behind.
Crash(p) ==
    /\ UNCHANGED notLock
    /\ alive[p]
    /\ alive' = [alive EXCEPT ![p] = FALSE]
    /\ lk_pc' = [r \in Runners |-> IF ProcOf(r) = p THEN "dead" ELSE lk_pc[r]]
    /\ LET fds == [r \in Runners |-> IF ProcOf(r) = p THEN 0 ELSE lock_fd[r]]
       IN /\ lock_fd' = fds
          /\ lock_content' = Reclaim(lock_content, lock_file, fds)
    /\ flock_holder' = [i \in Inodes |->
                          IF flock_holder[i] # NoRunner /\ ProcOf(flock_holder[i]) = p
                            THEN NoRunner ELSE flock_holder[i]]
    /\ lk_rivals' = [o \in Runners |-> {x \in lk_rivals[o] : ProcOf(x) # p}]
    /\ UNCHANGED <<sync_lock, is_syncing_flag, lock_file, lk_result>>

\* is_syncing() called in process p: the class flag, else the pid recorded
\* in the lock file probed with os.kill(pid, 0); an unreadable record counts
\* as "not syncing".
is_syncing(p) ==
    \/ is_syncing_flag[p]
    \/ /\ lock_file # 0
       /\ lock_content[lock_file] # 0
       /\ alive[lock_content[lock_file]]


\* ------------------------------------------------------------------------
\* The Local Store (daily_data) and one sync run of sync_all_stocks
\* ------------------------------------------------------------------------
Dates == 1..MaxDates
Symbols == 1..NumSymbols

\* SQL NULL / pandas NaN / Python None
NULL == -1

\* A daily_data record: the key, one raw quote column (收盘, in cents), one
\* valuation column (PE), the adjustment factor (复权因子) and the derived
\* columns qfq_收盘 and ma5/ma10/ma20/ma60; the other raw and derived columns of the table
\* are filled the same way as these.
Row(d, c, close, pe, factor) ==
    [date |-> d, code |-> c, close |-> close, pe |-> pe, factor |-> factor,
     qfq |-> NULL, ma5 |-> NULL, ma10 |-> NULL, ma20 |-> NULL, ma60 |-> NULL]

Key(r) == <<r.date, r.code>>
Raw(r) == [date |-> r.date, code |-> r.code, close |-> r.close, pe |-> r.pe, factor |-> r.factor]

\* What the remote source can answer for one trade date: per symbol the
\* daily quote, the daily_basic valuation and the adj_factor, NULL where
\* the source has no row for the symbol (a failed call has no rows at all).
AnswerFull ==
    [daily |-> [c \in Symbols |-> 1000 * c], basic |-> [c \in Symbols |-> 5],
     adj |-> [c \in Symbols |-> 1]]

\* symbol 1 trades ex-rights: new close, new factor; no valuation row for the others
AnswerSplit ==
    [daily |-> [c \in Symbols |-> IF c = 1 THEN 1015 ELSE 1000 * c],
     basic |-> [c \in Symbols |-> IF c = 1 THEN 5 ELSE NULL],
     adj |-> [c \in Symbols |-> IF c = 1 THEN 2 ELSE 1]]

\* the adj_factor call failed
AnswerNoFactor ==
    [daily |-> [c \in Symbols |-> 1000 * c], basic |-> [c \in Symbols |-> 5],
     adj |-> [c \in Symbols |-> NULL]]

\* quotes for symbol 1 only, valuation for the others only
AnswerPartial ==
    [daily |-> [c \in Symbols |-> IF c = 1 THEN 1000 ELSE NULL],
     basic |-> [c \in Symbols |-> IF c = 1 THEN NULL ELSE 5],
     adj |-> [c \in Symbols |-> 1]]

\* the daily call failed or the day has no quotes
AnswerEmpty ==
    [daily |-> [c \in Symbols |-> NULL], basic |-> [c \in Symbols |-> 5],
     adj |-> [c \in Symbols |-> 1]]

RemoteAnswers == {AnswerFull, AnswerSplit, AnswerNoFactor, AnswerPartial, AnswerEmpty}

RECURSIVE MergeFrom(_, _, _)
MergeFrom(c, d, ans) ==
    IF c > NumSymbols THEN <<>>
    ELSE (IF ans.daily[c] = NULL THEN <<>>
          ELSE <<Row(d, c, ans.daily[c], ans.basic[c], ans.adj[c])>>)
         \o MergeFrom(c + 1, d, ans)

\* fetch_and_merge_by_date: empty when the daily quotes are empty, else the
\* daily rows left-joined with daily_basic and adj_factor on (代码, 日期).
fetch_and_merge_by_date(d, ans) == MergeFrom(1, d, ans)

\* Mutant of ReplaceInto: a plain INSERT into a table without the primary key.
InsertInto(table, row) == table (+) SetToBag({row})

\* REPLACE INTO daily_data on a table with PRIMARY KEY (日期, 代码): every
\* stored row with the key of the new row is deleted, then the row is
\* inserted; columns the statement does not name (the derived ones) are NULL.
ReplaceInto(table, row) ==
    LET kept == {x \in DOMAIN table : Key(x) # Key(row)}
    IN [x \in kept |-> table[x]] (+) SetToBag({row})

RECURSIVE ExecuteMany(_, _, _)
ExecuteMany(table, rows, k) ==
    IF k > Len(rows) THEN table
    ELSE ExecuteMany(ReplaceInto(table, rows[k]), rows, k + 1)

\* save_to_database(df) as one committed transaction.
save_to_database(table, rows) == ExecuteMany(table, rows, 1)

\* numpy round: to the nearest integer, ties to even (n, d > 0).
RoundDiv(n, d) ==
    LET q == n \div d
        r == n % d
    IN IF 2 * r < d THEN q
       ELSE IF 2 * r > d THEN q + 1
       ELSE IF q % 2 = 0 THEN q ELSE q + 1

RowsOf(table, c) == {x \in DOMAIN table : x.code = c}

RECURSIVE SetToSeq(_)
SetToSeq(rows) ==
    IF rows = {} THEN <<>>
    ELSE LET x == CHOOSE y \in rows : TRUE IN <<x>> \o SetToSeq(rows \ {x})

RECURSIVE ByDate(_, _, _)
ByDate(rows, d, last) ==
    IF d > last THEN <<>>
    ELSE SetToSeq({x \in rows : x.date = d}) \o ByDate(rows, d + 1, last)

\* SELECT * ... ORDER BY 代码, 日期 and groupby('代码'): the rows of one
\* symbol in date order
History(table, c) ==
    LET rows == RowsOf(table, c)
        days == {x.date : x \in rows}
    IN IF rows = {} THEN <<>>
       ELSE ByDate(rows, 1, CHOOSE d \in days : \A e \in days : e <= d)

HasFactor(x) == x.factor # NULL

\* df[df['复权因子'].notnull()].groupby('代码')['复权因子'].last()
BaseFactor(h) ==
    LET valid == SelectSeq(h, HasFactor)
    IN IF valid = <<>> THEN NULL ELSE valid[Len(valid)].factor

\* Mutant of QfqClose: the ratio is not applied, the adjusted close is the
\* raw close.
QfqCloseUnadjusted(x, base) == x.close

\* qfq_收盘 = (收盘 * adj_ratio).round(2), adj_ratio = 复权因子 / base_factor
\* where all three are present and 1.0 elsewhere (prices are in cents, so
\* round(2) is the rounding of the quotient to an integer)
QfqClose(x, base) ==
    IF x.close # NULL /\ x.factor # NULL /\ base # NULL
      THEN RoundDiv(x.close * x.factor, base)
      ELSE x.close

RECURSIVE SumQfq(_, _, _, _)
SumQfq(h, base, lo, hi) ==
    IF lo > hi THEN 0 ELSE QfqClose(h[lo], base) + SumQfq(h, base, lo + 1, hi)

\* Mutant of Rolling: rolling(n, min_periods=1), the mean of the rows there
\* are when the window is not full.
RollingMinPeriods(h, base, i, n) ==
    LET lo == IF i < n THEN 1 ELSE i - n + 1
    IN IF \E j \in lo..i : QfqClose(h[j], base) = NULL THEN NULL
       ELSE RoundDiv(SumQfq(h, base, lo, i), i - lo + 1)

\* x.rolling(n).mean() of the group's qfq_收盘, then round(2): NaN for the
\* first n-1 rows of the group and for a window that holds a NaN.
Rolling(h, base, i, n) ==
    IF i < n \/ \E j \in (i - n + 1)..i : QfqClose(h[j], base) = NULL
      THEN NULL
      ELSE RoundDiv(SumQfq(h, base, i - n + 1, i), n)

Recomputed(h, base, i) ==
    [h[i] EXCEPT !.qfq = QfqClose(h[i], base),
                 !.ma5 = Rolling(h, base, i, 5),
                 !.ma10 = Rolling(h, base, i, 10),
                 !.ma20 = Rolling(h, base, i, 20),
                 !.ma60 = Rolling(h, base, i, 60)]

\* the pairs <<stored row, row with its derived columns recomputed>> of one symbol
RecomputedRows(h) ==
    LET base == BaseFactor(h)
    IN {<<h[i], Recomputed(h, base, i)>> : i \in 1..Len(h)}

RECURSIVE CopiesOf(_, _)
CopiesOf(table, olds) ==
    IF olds = {} THEN 0
    ELSE LET x == CHOOSE y \in olds : TRUE
         IN table[x] + CopiesOf(table, olds \ {x})

\* the table after the UPDATE statements of the symbols in done have run:
\* UPDATE ... WHERE 日期 = ? AND 代码 = ? sets the derived columns of the
\* stored row with that key; raw columns are not in the statement.
UpdateRows(table, done) ==
    LET pairs == UNION {RecomputedRows(History(table, c)) : c \in done}
        rest == {x \in DOMAIN table : x.code \notin done}
        imgs == {p[2] : p \in pairs} \cup rest
    IN [i \in imgs |-> CopiesOf(table, {p[1] : p \in {q \in pairs : q[2] = i}}
                                         \cup ({i} \cap rest))]

\* recompute_technical_indicators: every row gets its derived columns from
\* the whole stored history of its symbol, in one transaction.
recompute_technical_indicators(table) == UpdateRows(table, Symbols)

CompleteDates(table) == {x.date : x \in {y \in DOMAIN table : y.factor # NULL}}

RECURSIVE DaysFrom(_, _)
DaysFrom(lo, hi) == IF lo > hi THEN <<>> ELSE <<lo>> \o DaysFrom(lo + 1, hi)

SeqSet(q) == {q[i] : i \in 1..Len(q)}

RECURSIVE Without(_, _)
Without(q, drop) ==
    IF q = <<>> THEN <<>>
    ELSE (IF Head(q) \in drop THEN <<>> ELSE <<Head(q)>>) \o Without(Tail(q), drop)

\* The stores a call can start from: every date is absent, complete (synced
\* with factors) or incomplete (synced while adj_factor failed); the last
\* run recomputed the indicators.
RECURSIVE Ingest(_, _, _)
Ingest(table, d, choice) ==
    IF d > MaxDates THEN table
    ELSE Ingest(IF choice[d] = "absent" THEN table
                ELSE save_to_database(table, fetch_and_merge_by_date(d,
                         IF choice[d] = "complete" THEN AnswerFull ELSE AnswerNoFactor)),
                d + 1, choice)

InitialStores ==
    {recompute_technical_indicators(Ingest(EmptyBag, 1, choice)) :
        choice \in [Dates -> {"absent", "complete", "incomplete"}]}

NoTxn == <<"no transaction">>
NoStop == [at |-> "never"]

InitSync(store) ==
    /\ pc = "idle"
    /\ runs = 0
    /\ force = FALSE
    /\ range = <<1, 1>>
    /\ trading_days = <<>>
    /\ idx = 1
    /\ stop_requested = FALSE
    /\ db = store
    /\ txn = NoTxn
    /\ df = <<>>
    /\ row_k = 1
    /\ stock_basic = IF store = EmptyBag THEN {} ELSE Symbols
    /\ metadata = [total_records |-> BagCardinality(store),
                   total_days |-> Cardinality({x.date : x \in DOMAIN store})]
    /\ outcome = "none"
    /\ callback = <<>>
    /\ lease = "none"
    /\ calendar = {}
    /\ filtered = FALSE
    /\ fetched = {}
    /\ upserted = {}
    /\ merged = [d \in Dates |-> {}]
    /\ run_written = {}
    /\ stop_at = NoStop
    /\ db_before = store

LoopPcs == {"loop", "fetch", "check_new", "save", "save_rows", "progress"}

FrameCodes(rows) == {rows[i].code : i \in 1..Len(rows)}
FrameKeys(rows) == {Key(rows[i]) : i \in 1..Len(rows)}

\* sync_all_stocks(start_date, end_date, force) is called: _acquire_lock
\* either takes the lease or the call reports "已有任务运行" and returns False.
StartSync(f, lo, hi) ==
    /\ UNCHANGED notSync
    /\ pc = "idle"
    /\ runs < MaxRuns
    /\ runs' = runs + 1
    /\ IF lease = "none"
         THEN /\ lease' = "self"
              /\ pc' = "calendar"
              /\ force' = f
              /\ range' = <<lo, hi>>
              /\ outcome' = "none"
              /\ callback' = <<>>
              /\ calendar' = {}
              /\ filtered' = FALSE
              /\ fetched' = {}
              /\ upserted' = {}
              /\ merged' = [d \in Dates |-> {}]
              /\ run_written' = {}
              /\ stop_at' = NoStop
              /\ db_before' = db
              /\ trading_days' = <<>>
              /\ idx' = 1
              /\ df' = <<>>
         ELSE /\ outcome' = "already_running"
              /\ callback' = <<0, 0, "already_running">>
              /\ UNCHANGED <<lease, pc, force, range, calendar, filtered,
                             fetched, upserted, merged, run_written, stop_at, db_before,
                             trading_days, idx, df>>
    /\ UNCHANGED <<stop_requested, db, txn, row_k, stock_basic, metadata>>

\* Mutant of GetTradingDays: a forced run empties the table before it
\* looks at the calendar.
GetTradingDaysAfterDelete ==
    /\ UNCHANGED notSync
    /\ pc = "calendar"
    /\ db' = IF force THEN EmptyBag ELSE db
    /\ \E ok \in BOOLEAN :
          IF ok THEN /\ trading_days' = DaysFrom(range[1], range[2])
                     /\ calendar' = range[1]..range[2]
                     /\ pc' = "filter"
                     /\ UNCHANGED outcome
                ELSE /\ outcome' = "calendar_failed"
                     /\ pc' = "release"
                     /\ UNCHANGED <<trading_days, calendar>>
    /\ UNCHANGED <<runs, force, range, idx, stop_requested, txn, df, row_k, stock_basic,
                   metadata, callback, lease, filtered, fetched, upserted,
                   merged, run_written, stop_at, db_before>>

\* trading_days = self.get_trading_days(start_date, end_date); an empty
\* list (also what a failed calendar call returns) ends the call with False.
GetTradingDays ==
    /\ UNCHANGED notSync
    /\ pc = "calendar"
    /\ \E ok \in BOOLEAN :
          IF ok THEN /\ trading_days' = DaysFrom(range[1], range[2])
                     /\ calendar' = range[1]..range[2]
                     /\ pc' = "filter"
                     /\ UNCHANGED outcome
                ELSE /\ outcome' = "calendar_failed"
                     /\ pc' = "release"
                     /\ UNCHANGED <<trading_days, calendar>>
    /\ UNCHANGED <<runs, force, range, idx, stop_requested, db, txn, df, row_k, stock_basic,
                   metadata, callback, lease, filtered, fetched, upserted,
                   merged, run_written, stop_at, db_before>>

\* Mutant of IncrementalFilter: the complete dates stay in the list.
IncrementalFilterKeepsAll ==
    /\ UNCHANGED notSync
    /\ pc = "filter"
    /\ ~force
    /\ filtered' = TRUE
    /\ pc' = "reset"
    /\ UNCHANGED <<runs, force, range, trading_days, idx, stop_requested, db, txn, df, row_k,
                   stock_basic, metadata, outcome, callback, lease, calendar, fetched, upserted,
                   merged, run_written, stop_at, db_before>>

\* not force: drop the dates that have a record with a non-null 复权因子;
\* nothing left means recompute and return True.
IncrementalFilter ==
    /\ UNCHANGED notSync
    /\ pc = "filter"
    /\ ~force
    /\ trading_days' = Without(trading_days, CompleteDates(db))
    /\ filtered' = TRUE
    /\ pc' = IF trading_days' = <<>> THEN "recompute_only" ELSE "reset"
    /\ UNCHANGED <<runs, force, range, idx, stop_requested, db, txn, df, row_k, stock_basic,
                   metadata, outcome, callback, lease, calendar, fetched, upserted, merged,
                   run_written, stop_at, db_before>>

\* Mutant of ForceDelete: only the dates of the requested range are deleted.
ForceDeleteRangeOnly ==
    /\ UNCHANGED notSync
    /\ pc = "filter"
    /\ force
    /\ db' = [x \in {y \in DOMAIN db : y.date \notin calendar} |-> db[x]]
    /\ filtered' = TRUE
    /\ pc' = "reset"
    /\ UNCHANGED <<runs, force, range, trading_days, idx, stop_requested, txn, df, row_k,
                   stock_basic, metadata, outcome, callback, lease, calendar,
                   fetched, upserted, merged, run_written, stop_at, db_before>>

\* force: DELETE FROM daily_data
ForceDelete ==
    /\ UNCHANGED notSync
    /\ pc = "filter"
    /\ force
    /\ db' = EmptyBag
    /\ filtered' = TRUE
    /\ pc' = "reset"
    /\ UNCHANGED <<runs, force, range, trading_days, idx, stop_requested, txn, df, row_k,
                   stock_basic, metadata, outcome, callback, lease, calendar,
                   fetched, upserted, merged, run_written, stop_at, db_before>>

\* total_records = 0; self._stop_requested = False
ResetStop ==
    /\ UNCHANGED notSync
    /\ pc = "reset"
    /\ stop_requested' = FALSE
    /\ idx' = 1
    /\ pc' = "loop"
    /\ UNCHANGED <<runs, force, range, trading_days, db, txn, df, row_k, stock_basic, metadata,
                   outcome, callback, lease, calendar, filtered, fetched,
                   upserted, merged, run_written, stop_at, db_before>>

\* Mutant of LoopCheck: the stop flag is not looked at.
LoopCheckIgnoresStop ==
    /\ UNCHANGED notSync
    /\ pc = "loop"
    /\ pc' = IF idx > Len(trading_days) THEN "basic" ELSE "fetch"
    /\ UNCHANGED <<runs, force, range, trading_days, idx, stop_requested, db, txn, df, row_k,
                   stock_basic, metadata, outcome, callback, lease, calendar, filtered,
                   fetched, upserted, merged, run_written, stop_at, db_before>>

\* head of the per-date loop: the list is exhausted, or the stop flag is set
\* (break), or the next date is taken up.
LoopCheck ==
    /\ UNCHANGED notSync
    /\ pc = "loop"
    /\ IF idx > Len(trading_days)
         THEN pc' = "basic" /\ UNCHANGED outcome
         ELSE IF stop_requested
                THEN pc' = "basic" /\ outcome' = "cancelled"
                ELSE pc' = "fetch" /\ UNCHANGED outcome
    /\ UNCHANGED <<runs, force, range, trading_days, idx, stop_requested, db, txn, df, row_k,
                   stock_basic, metadata, callback, lease, calendar, filtered,
                   fetched, upserted, merged, run_written, stop_at, db_before>>

\* df = self.fetch_and_merge_by_date(trade_date)
FetchAndMerge ==
    /\ UNCHANGED notSync
    /\ pc = "fetch"
    /\ \E ans \in RemoteAnswers :
          df' = fetch_and_merge_by_date(trading_days[idx], ans)
    /\ fetched' = fetched \cup {trading_days[idx]}
    /\ merged' = [merged EXCEPT ![trading_days[idx]] = FrameCodes(df')]
    /\ pc' = IF df' = <<>> THEN "progress" ELSE "check_new"
    /\ UNCHANGED <<runs, force, range, trading_days, idx, stop_requested, db, txn, row_k,
                   stock_basic, metadata, outcome, callback, lease, calendar,
                   filtered, upserted, run_written, stop_at, db_before>>

\* self._check_for_new_stocks(codes): an unknown code triggers
\* sync_stock_basic, which replaces the table by the listed symbols or fails.
CheckForNewStocks ==
    /\ UNCHANGED notSync
    /\ pc = "check_new"
    /\ \E ok \in BOOLEAN :
          stock_basic' = IF ok /\ FrameCodes(df) \ stock_basic # {} THEN Symbols
                         ELSE stock_basic
    /\ pc' = "save"
    /\ UNCHANGED <<runs, force, range, trading_days, idx, stop_requested, db, txn, df, row_k,
                   metadata, outcome, callback, lease, calendar, filtered,
                   fetched, upserted, merged, run_written, stop_at, db_before>>

\* save_to_database: sqlite3.connect(...) -- the connection starts from the
\* committed table.
BeginSave ==
    /\ UNCHANGED notSync
    /\ pc = "save"
    /\ txn' = db
    /\ row_k' = 1
    /\ pc' = "save_rows"
    /\ UNCHANGED <<runs, force, range, trading_days, idx, stop_requested, db, df, stock_basic,
                   metadata, outcome, callback, lease, calendar, filtered,
                   fetched, upserted, merged, run_written, stop_at, db_before>>

\* Mutant of SaveRow: the connection is in autocommit mode, every row is
\* visible as soon as it is written.
SaveRowAutocommit ==
    /\ UNCHANGED notSync
    /\ pc = "save_rows"
    /\ row_k <= Len(df)
    /\ txn' = ReplaceInto(txn, df[row_k])
    /\ db' = ReplaceInto(db, df[row_k])
    /\ run_written' = run_written \cup {Key(df[row_k])}
    /\ row_k' = row_k + 1
    /\ UNCHANGED <<pc, runs, force, range, trading_days, idx, stop_requested, df,
                   stock_basic, metadata, outcome, callback, lease, calendar,
                   filtered, fetched, upserted, merged, stop_at, db_before>>

\* conn.executemany(sql, data): one REPLACE INTO inside the open transaction
SaveRow ==
    /\ UNCHANGED notSync
    /\ pc = "save_rows"
    /\ row_k <= Len(df)
    /\ txn' = ReplaceInto(txn, df[row_k])
    /\ row_k' = row_k + 1
    /\ UNCHANGED <<pc, runs, force, range, trading_days, idx, stop_requested, db, df,
                   stock_basic, metadata, outcome, callback, lease, calendar,
                   filtered, fetched, upserted, merged, run_written, stop_at, db_before>>

\* conn.commit(): the rows of the date become visible together
CommitSave ==
    /\ UNCHANGED notSync
    /\ pc = "save_rows"
    /\ row_k > Len(df)
    /\ db' = txn
    /\ txn' = NoTxn
    /\ upserted' = upserted \cup {trading_days[idx]}
    /\ run_written' = run_written \cup FrameKeys(df)
    /\ pc' = "progress"
    /\ UNCHANGED <<runs, force, range, trading_days, idx, stop_requested, df, row_k,
                   stock_basic, metadata, outcome, callback, lease, calendar,
                   filtered, fetched, merged, stop_at, db_before>>

\* Mutant of SaveFail: the release is not in a finally clause, the exception
\* leaves the call with the lease still held.
SaveFailNoFinally ==
    /\ UNCHANGED notSync
    /\ pc = "save_rows"
    /\ txn' = NoTxn
    /\ outcome' = "exception"
    /\ pc' = "idle"
    /\ UNCHANGED <<runs, force, range, trading_days, idx, stop_requested, db, df, row_k,
                   stock_basic, metadata, callback, lease, calendar, filtered,
                   fetched, upserted, merged, run_written, stop_at, db_before>>

\* sqlite raises inside save_to_database (locked database, I/O error): the
\* connection context manager rolls back, the exception leaves
\* sync_all_stocks through its finally clause.
SaveFail ==
    /\ UNCHANGED notSync
    /\ pc = "save_rows"
    /\ txn' = NoTxn
    /\ outcome' = "exception"
    /\ pc' = "release"
    /\ UNCHANGED <<runs, force, range, trading_days, idx, stop_requested, db, df, row_k,
                   stock_basic, metadata, callback, lease, calendar, filtered,
                   fetched, upserted, merged, run_written, stop_at, db_before>>

\* progress_callback(i + 1, len(trading_days), trade_date, status); sleep
ReportProgress ==
    /\ UNCHANGED notSync
    /\ pc = "progress"
    /\ callback' = <<idx, Len(trading_days), trading_days[idx]>>
    /\ idx' = idx + 1
    /\ pc' = "loop"
    /\ UNCHANGED <<runs, force, range, trading_days, stop_requested, db, txn, df, row_k,
                   stock_basic, metadata, outcome, lease, calendar, filtered,
                   fetched, upserted, merged, run_written, stop_at, db_before>>

\* self.sync_stock_basic() after the loop
SyncStockBasic ==
    /\ UNCHANGED notSync
    /\ pc = "basic"
    /\ \E ok \in BOOLEAN : stock_basic' = IF ok THEN Symbols ELSE stock_basic
    /\ pc' = "recompute"
    /\ UNCHANGED <<runs, force, range, trading_days, idx, stop_requested, db, txn, df, row_k,
                   metadata, outcome, callback, lease, calendar, filtered,
                   fetched, upserted, merged, run_written, stop_at, db_before>>

\* self.recompute_technical_indicators(): one transaction, or an exception
\* that it logs and swallows; on the "all complete" path the call then
\* returns True.
Recompute ==
    /\ UNCHANGED notSync
    /\ pc \in {"recompute", "recompute_only"}
    /\ \E ok \in BOOLEAN :
          db' = IF ok THEN recompute_technical_indicators(db) ELSE db
    /\ IF pc = "recompute"
         THEN pc' = "metadata" /\ UNCHANGED outcome
         ELSE pc' = "release" /\ outcome' = "all_complete"
    /\ UNCHANGED <<runs, force, range, trading_days, idx, stop_requested, txn, df, row_k,
                   stock_basic, metadata, callback, lease, calendar, filtered,
                   fetched, upserted, merged, run_written, stop_at, db_before>>

\* self.save_metadata(...); return True
SaveMetadata ==
    /\ UNCHANGED notSync
    /\ pc = "metadata"
    /\ metadata' = [total_records |-> BagCardinality(db),
                    total_days |-> Cardinality({x.date : x \in DOMAIN db})]
    /\ outcome' = IF outcome = "cancelled" THEN "cancelled" ELSE "completed"
    /\ pc' = "release"
    /\ UNCHANGED <<runs, force, range, trading_days, idx, stop_requested, db, txn, df, row_k,
                   stock_basic, callback, lease, calendar, filtered, fetched,
                   upserted, merged, run_written, stop_at, db_before>>

\* finally: self._release_lock()
ReleaseLock ==
    /\ UNCHANGED notSync
    /\ pc = "release"
    /\ lease' = "none"
    /\ pc' = "idle"
    /\ UNCHANGED <<runs, force, range, trading_days, idx, stop_requested, db, txn, df, row_k,
                   stock_basic, metadata, outcome, callback, calendar,
                   filtered, fetched, upserted, merged, run_written, stop_at, db_before>>

\* request_stop(), called from another thread while a call runs (the flag
\* is not read before the call itself resets it, so a request made while
\* idle changes nothing)
RequestStop ==
    /\ UNCHANGED notSync
    /\ pc # "idle"
    /\ ~stop_requested
    /\ stop_requested' = TRUE
    /\ stop_at' = IF pc \in LoopPcs /\ (stop_at = NoStop \/ stop_at.at = "before_loop")
                    THEN [at |-> "loop",
                          inprog |-> IF pc = "loop" THEN {} ELSE {trading_days[idx]},
                          fetched |-> fetched,
                          upserted |-> upserted,
                          rows |-> {Raw(x) : x \in {y \in DOMAIN db : y.date \in upserted}}]
                    ELSE IF stop_at = NoStop /\ pc \in {"calendar", "filter", "reset"}
                    THEN [at |-> "before_loop", inprog |-> {}, fetched |-> {},
                          upserted |-> {}, rows |-> {}]
                    ELSE stop_at
    /\ UNCHANGED <<pc, runs, force, range, trading_days, idx, db, txn, df, row_k, stock_basic,
                   metadata, outcome, callback, lease, calendar, filtered,
                   fetched, upserted, merged, run_written, db_before>>

\* another thread or process takes the free lease for its own run / ends it
OtherAcquire ==
    /\ UNCHANGED notSync
    /\ lease = "none"
    /\ lease' = "other"
    /\ UNCHANGED <<pc, runs, force, range, trading_days, idx, stop_requested, db, txn, df,
                   row_k, stock_basic, metadata, outcome, callback, calendar,
                   filtered, fetched, upserted, merged, run_written, stop_at, db_before>>

OtherRelease ==
    /\ UNCHANGED notSync
    /\ lease = "other"
    /\ lease' = "none"
    /\ UNCHANGED <<pc, runs, force, range, trading_days, idx, stop_requested, db, txn, df,
                   row_k, stock_basic, metadata, outcome, callback, calendar,
                   filtered, fetched, upserted, merged, run_written, stop_at, db_before>>

NextSync ==
    \/ \E f \in BOOLEAN, lo \in Dates, hi \in Dates : lo <= hi /\ StartSync(f, lo, hi)
    \/ GetTradingDays
    \/ IncrementalFilter
    \/ ForceDelete
    \/ ResetStop
    \/ LoopCheck
    \/ FetchAndMerge
    \/ CheckForNewStocks
    \/ BeginSave
    \/ SaveRow
    \/ CommitSave
    \/ SaveFail
    \/ ReportProgress
    \/ SyncStockBasic
    \/ Recompute
    \/ SaveMetadata
    \/ ReleaseLock
    \/ RequestStop
    \/ OtherAcquire
    \/ OtherRelease

NextLock ==
    \/ \E r \in Runners :
          \/ AcquireThreadLock(r)
          \/ OpenLockFile(r)
          \/ FlockLockFile(r)
          \/ WriteLockInfo(r)
          \/ SetSyncingFlag(r)
          \/ RunBody(r)
          \/ ClearSyncingFlag(r)
          \/ UnlockLockFile(r)
          \/ CloseLockFile(r)
          \/ RemoveLockFile(r)
          \/ ReleaseThreadLock(r)
    \/ \E p \in Procs : Crash(p)

\* C1: at most one sync run at a time is between a successful
\* _acquire_lock and its _release_lock, across threads and processes.
C1_SingleLeaseHolder ==
    \A r1, r2 \in Runners : Holds(r1) /\ Holds(r2) => r1 = r2

\* C2: a sync call made while another live run holds the lease does not
\* get the lease and does no sync work (no fetch, no store write): it
\* returns false with the "already running" status.
C2_ContendedCallFailsFast ==
    \A r \in Runners :
        lk_rivals[r] # {} =>
            /\ lk_pc[r] \in {"idle", "acq_open", "acq_flock", "acq_write", "acq_flag", "dead"}
            /\ lk_pc[r] = "idle" => lk_result[r] = "already_running"

\* C4: is_syncing(), asked in any live process, is true while a live run
\* holds the lease (also after other processes tried and failed to acquire
\* it) and false when no call is in progress.
C4_IsSyncingTracksLease ==
    \A p \in Procs :
        alive[p] =>
            /\ (\E r \in Runners : Holds(r)) => is_syncing(p)
            /\ (\A r \in Runners : lk_pc[r] \in {"idle", "dead"}) => ~is_syncing(p)

\* ------------------------------------------------------------------------
\* run_full_sync: the rate-limit-protected loop over pending_codes
\* ------------------------------------------------------------------------
MAX_CONSECUTIVE_FAILS == 5
COOLDOWN_MINUTES == 10
HEALTH_CHECK_INTERVAL == 100
PROGRESS_SAVE_INTERVAL == 50

InitRemote ==
    /\ rf_pc = "head"
    /\ rf_i = 0
    /\ consecutive_fails = 0
    /\ rf_cooled = 0
    /\ rf_failed = FALSE
    /\ rf_saved = 0
    /\ rf_end = "running"

\* for i, code in enumerate(pending_codes): every HEALTH_CHECK_INTERVAL-th
\* code starts with check_api_health()
LoopHead ==
    /\ UNCHANGED notRemote
    /\ rf_pc = "head"
    /\ IF rf_i >= NumPending
         THEN rf_pc' = "finally" /\ rf_end' = "exhausted" /\ UNCHANGED rf_cooled
         ELSE /\ UNCHANGED rf_end
              /\ IF (rf_i + 1) % HEALTH_CHECK_INTERVAL = 0
                   THEN \E healthy \in BOOLEAN :
                           /\ rf_cooled' = 0
                           /\ rf_pc' = IF healthy THEN "item" ELSE "cooldown"
                   ELSE rf_pc' = "item" /\ UNCHANGED rf_cooled
    /\ UNCHANGED <<rf_i, consecutive_fails, rf_failed, rf_saved>>

\* the periodic probe failed: time.sleep(COOLDOWN_MINUTES * 60)
CooldownAfterProbe ==
    /\ UNCHANGED notRemote
    /\ rf_pc = "cooldown"
    /\ rf_cooled' = COOLDOWN_MINUTES * 60
    /\ rf_pc' = "item"
    /\ UNCHANGED <<rf_i, consecutive_fails, rf_failed, rf_saved, rf_end>>

\* result = sync_single_stock(code, ...) and the progress bookkeeping
SyncSingleStock ==
    /\ UNCHANGED notRemote
    /\ rf_pc = "item"
    /\ \E failed \in BOOLEAN :
          /\ consecutive_fails' = IF failed THEN consecutive_fails + 1 ELSE 0
          /\ rf_failed' = (rf_failed \/ failed)
    /\ rf_pc' = "fail_check"
    /\ UNCHANGED <<rf_i, rf_cooled, rf_saved, rf_end>>

\* if consecutive_fails >= MAX_CONSECUTIVE_FAILS: save_progress, sleep,
\* consecutive_fails = 0
FailCheck ==
    /\ UNCHANGED notRemote
    /\ rf_pc = "fail_check"
    /\ IF consecutive_fails >= MAX_CONSECUTIVE_FAILS
         THEN /\ rf_saved' = rf_i + 1
              /\ rf_cooled' = COOLDOWN_MINUTES * 60
              /\ consecutive_fails' = 0
              /\ rf_pc' = "reprobe"
         ELSE /\ rf_pc' = "tail"
              /\ UNCHANGED <<rf_saved, rf_cooled, consecutive_fails>>
    /\ UNCHANGED <<rf_i, rf_failed, rf_end>>

\* Mutant of Reprobe: an unhealthy probe after the cooldown starts another
\* cooldown instead of leaving the loop.
ReprobeUntilHealthy ==
    /\ UNCHANGED notRemote
    /\ rf_pc = "reprobe"
    /\ rf_cooled' = 0
    /\ \E healthy \in BOOLEAN :
          IF healthy THEN rf_pc' = "tail" /\ UNCHANGED consecutive_fails
                     ELSE rf_pc' = "fail_check" /\ consecutive_fails' = MAX_CONSECUTIVE_FAILS
    /\ UNCHANGED <<rf_i, rf_end, rf_failed, rf_saved>>

\* if not check_api_health(): break
Reprobe ==
    /\ UNCHANGED notRemote
    /\ rf_pc = "reprobe"
    /\ rf_cooled' = 0
    /\ \E healthy \in BOOLEAN :
          IF healthy THEN rf_pc' = "tail" /\ UNCHANGED <<rf_end, rf_i>>
                     ELSE rf_pc' = "finally" /\ rf_end' = "aborted" /\ rf_i' = rf_i + 1
    /\ UNCHANGED <<consecutive_fails, rf_failed, rf_saved>>

\* if (i + 1) % 50 == 0: save_progress; random_delay
LoopTail ==
    /\ UNCHANGED notRemote
    /\ rf_pc = "tail"
    /\ rf_saved' = IF (rf_i + 1) % PROGRESS_SAVE_INTERVAL = 0 THEN rf_i + 1 ELSE rf_saved
    /\ rf_i' = rf_i + 1
    /\ rf_pc' = "head"
    /\ UNCHANGED <<consecutive_fails, rf_cooled, rf_failed, rf_end>>

\* except KeyboardInterrupt
Interrupt ==
    /\ UNCHANGED notRemote
    /\ rf_pc \in {"head", "cooldown", "item", "fail_check", "reprobe", "tail"}
    /\ rf_pc' = "finally"
    /\ rf_end' = "interrupted"
    /\ rf_i' = IF rf_pc \in {"fail_check", "reprobe", "tail"} THEN rf_i + 1 ELSE rf_i
    /\ UNCHANGED <<consecutive_fails, rf_cooled, rf_failed, rf_saved>>

\* finally: save_progress(progress); then the statistics, and
\* clear_progress() when nothing failed
FinishFullSync ==
    /\ UNCHANGED notRemote
    /\ rf_pc = "finally"
    /\ rf_saved' = IF ~rf_failed THEN 0 ELSE rf_i
    /\ rf_pc' = "done"
    /\ UNCHANGED <<rf_i, consecutive_fails, rf_cooled, rf_failed, rf_end>>

NextRemote ==
    \/ LoopHead
    \/ CooldownAfterProbe
    \/ SyncSingleStock
    \/ FailCheck
    \/ Reprobe
    \/ LoopTail
    \/ Interrupt
    \/ FinishFullSync

\* ------------------------------------------------------------------------
\* recompute_technical_indicators on the histories a store can hold
\* ------------------------------------------------------------------------
Windows == {5, 10, 20, 60}

MaOf(x, n) == CASE n = 5 -> x.ma5 [] n = 10 -> x.ma10 [] n = 20 -> x.ma20 [] n = 60 -> x.ma60

\* A history of HistLen trade dates. Symbol 1 trades every day, its close
\* moves by step; its factor goes from 1 to 3 on the date split (never, when
\* split is past the end). The other symbols trade on the dates of listed
\* only, with factor 1. On the date nofactor (0: never) the adj_factor call
\* failed.
CloseSteps == {0, 1, 13}
SplitDates == {2, HistLen, HistLen + 1}
NoFactorDates == {0, 1, HistLen}
ListedDates == {{}, {1, 3, HistLen}, (HistLen - 5)..HistLen}
NewFrom == {1, HistLen, HistLen + 1}

AnswerOn(d, step, split, nofactor, listed) ==
    [daily |-> [c \in Symbols |-> IF c = 1 THEN 1000 + step * (d % 7)
                                  ELSE IF d \in listed THEN 1000 * c ELSE NULL],
     basic |-> [c \in Symbols |-> 5],
     adj |-> [c \in Symbols |-> IF d = nofactor THEN NULL
                                ELSE IF c = 1 /\ d >= split THEN 3 ELSE 1]]

\* what the runs over the dates lo..hi have stored: one
\* fetch_and_merge_by_date frame per date, saved under its own keys
IngestHistory(lo, hi, step, split, nofactor, listed) ==
    SetToBag(UNION {SeqSet(fetch_and_merge_by_date(d, AnswerOn(d, step, split, nofactor, listed))) :
                       d \in lo..hi})

\* the store before the recompute of a run: the dates before newfrom were
\* ingested and recomputed by earlier runs, the later ones by this run
StoredHistories ==
    {recompute_technical_indicators(IngestHistory(1, newfrom - 1, step, split, nofactor, listed))
        (+) IngestHistory(newfrom, HistLen, step, split, nofactor, listed) :
        step \in CloseSteps, split \in SplitDates, nofactor \in NoFactorDates,
        listed \in ListedDates, newfrom \in NewFrom}

InitRecomputeIdle ==
    /\ rc_table = EmptyBag
    /\ rc_before = EmptyBag
    /\ rc_result = "none"

InitRecompute ==
    /\ rc_table \in StoredHistories
    /\ rc_before = rc_table
    /\ rc_result = "none"

\* the call runs to conn.commit()
RecomputeOk ==
    /\ UNCHANGED notRecompute
    /\ rc_before' = rc_table
    /\ rc_table' = recompute_technical_indicators(rc_table)
    /\ rc_result' = "ok"

\* Mutant of RecomputeFail: the updates of the first symbol are committed
\* before the exception.
RecomputeFailPartial ==
    /\ UNCHANGED notRecompute
    /\ rc_before' = rc_table
    /\ rc_table' = UpdateRows(rc_table, {1})
    /\ rc_result' = "failed"

\* an exception inside the with-block (read, computation, executemany or
\* commit): the connection context manager rolls the transaction back, the
\* except clause prints and returns
RecomputeFail ==
    /\ UNCHANGED notRecompute
    /\ rc_before' = rc_table
    /\ rc_table' = rc_table
    /\ rc_result' = "failed"

NextRecompute ==
    \/ RecomputeOk
    \/ RecomputeFail

\* ------------------------------------------------------------------------
\* The Filter Library (filters/atomic.py)
\* ------------------------------------------------------------------------
\* A snapshot is a set of rows with unique codes. 代码 is a sequence of six
\* digits, 名称 a sequence of characters (<<>> for a missing name), 涨跌幅 and
\* 换手率 are in hundredths of a percent, 总市值 in units of 1e8 yuan; NULL
\* is NaN. board is the category the row is meant to be in, which no
\* filter reads.
StartsWith(code, prefix) ==
    Len(code) >= Len(prefix) /\ SubSeq(code, 1, Len(prefix)) = prefix

StartsWithAny(code, prefixes) == \E p \in prefixes : StartsWith(code, p)

Upper(ch) == CASE ch = "s" -> "S" [] ch = "t" -> "T" [] OTHER -> ch

\* str.contains('ST', case=False, na=False)
ContainsST(name) ==
    \E i \in 1..(Len(name) - 1) : Upper(name[i]) = "S" /\ Upper(name[i + 1]) = "T"

\* comparisons in which a NaN operand gives False
Ge(a, b) == a # NULL /\ b # NULL /\ a >= b
Le(a, b) == a # NULL /\ b # NULL /\ a <= b
Lt(a, b) == a # NULL /\ b # NULL /\ a < b

\* Mutant of filter_by_exchange: the growth board is the range 300 only.
filter_by_exchange300(frame, exclude) ==
    LET r1 == IF "ChiNext" \in exclude
                THEN {x \in frame : ~StartsWith(x.code, <<3, 0, 0>>)} ELSE frame
        r2 == IF "STAR" \in exclude
                THEN {x \in r1 : ~StartsWith(x.code, <<6, 8, 8>>)} ELSE r1
        r3 == IF "BSE" \in exclude
                THEN {x \in r2 : ~StartsWithAny(x.code,
                         {<<4, 3>>, <<8, 3>>, <<8, 7>>, <<8, 8>>, <<8, 2>>, <<9>>})} ELSE r2
    IN r3

\* exclude = None and exclude = [] both keep every row
filter_by_exchange(frame, exclude) ==
    LET r1 == IF "ChiNext" \in exclude
                THEN {x \in frame : ~StartsWith(x.code, <<3, 0>>)} ELSE frame
        r2 == IF "STAR" \in exclude
                THEN {x \in r1 : ~StartsWith(x.code, <<6, 8, 8>>)} ELSE r1
        r3 == IF "BSE" \in exclude
                THEN {x \in r2 : ~StartsWithAny(x.code,
                         {<<4, 3>>, <<8, 3>>, <<8, 7>>, <<8, 8>>, <<8, 2>>, <<9>>})} ELSE r2
    IN r3

filter_by_st(frame, exclude) ==
    IF ~exclude THEN frame ELSE {x \in frame : ~ContainsST(x.name)}

\* min_val / max_val = NULL stands for None
filter_by_turnover(frame, min_val, max_val) ==
    LET r1 == IF min_val # NULL THEN {x \in frame : Ge(x.turnover, min_val)} ELSE frame
    IN IF max_val # NULL THEN {x \in r1 : Le(x.turnover, max_val)} ELSE r1

filter_by_market_cap(frame, min_val, max_val) ==
    LET r1 == IF min_val # NULL THEN {x \in frame : Ge(x.cap, min_val)} ELSE frame
    IN IF max_val # NULL THEN {x \in r1 : Le(x.cap, max_val)} ELSE r1

LIMIT_UP_MAIN == 980
LIMIT_UP_GROWTH == 1980
LIMIT_UP_BSE == 2980
LIMIT_UP_ST == 480

\* Mutant of LimitUpThreshold: the thresholds of the docstring (9.9, 19.9,
\* 29.9, 4.9).
LimitUpThresholdDocstring(x) ==
    IF ContainsST(x.name) THEN LIMIT_UP_ST + 10
    ELSE IF StartsWithAny(x.code, {<<8>>, <<4>>, <<9>>}) THEN LIMIT_UP_BSE + 10
    ELSE IF StartsWithAny(x.code, {<<3, 0>>, <<6, 8, 8>>}) THEN LIMIT_UP_GROWTH + 10
    ELSE LIMIT_UP_MAIN + 10

\* thresholds: 9.8 by default, 19.8 for codes starting 30 / 688, then 29.8
\* for codes starting 8 / 4 / 9, then 4.8 for names containing ST; a later
\* assignment overrides an earlier one
LimitUpThreshold(x) ==
    IF ContainsST(x.name) THEN LIMIT_UP_ST
    ELSE IF StartsWithAny(x.code, {<<8>>, <<4>>, <<9>>}) THEN LIMIT_UP_BSE
    ELSE IF StartsWithAny(x.code, {<<3, 0>>, <<6, 8, 8>>}) THEN LIMIT_UP_GROWTH
    ELSE LIMIT_UP_MAIN

filter_by_limit_up(frame) ==
    IF frame = {} THEN frame ELSE {x \in frame : Ge(x.pct, LimitUpThreshold(x))}

filter_by_change(frame, min_val, max_val) ==
    LET r1 == IF min_val # NULL THEN {x \in frame : Ge(x.pct, min_val)} ELSE frame
    IN IF max_val # NULL THEN {x \in r1 : Le(x.pct, max_val)} ELSE r1

\* df[df['开盘'] != df['收盘']]: NaN != anything is True
filter_by_not_one_word(frame) ==
    {x \in frame : x.open = NULL \/ x.close = NULL \/ x.open # x.close}

\* Mutant of filter_by_industry: when no row is of a wanted industry the
\* frame is returned as it came.
filter_by_industryOrAll(frame, industries) ==
    IF industries = {} \/ {x \in frame : x.industry \in industries} = {} THEN frame
    ELSE {x \in frame : x.industry \in industries}

filter_by_industry(frame, industries) ==
    IF industries = {} THEN frame ELSE {x \in frame : x.industry \in industries}

\* The rows snapshots are made of. Rows 1 to 8 are the boundary rows of the
\* limit-up thresholds, one just below and one at the threshold of each
\* category; rows 2, 3, 9 and 10 reach the per-symbol stages of the rules.
NoName == <<>>

StockCode(i, prefix) == prefix \o <<0, (i \div 10) % 10, i % 10>>

StockRow(i, prefix, name, board, pct, turnover, cap, open, close, industry, qfq, ma20, ma60, vol, vma5) ==
    [code |-> StockCode(i, prefix), name |-> name, board |-> board, pct |-> pct,
     turnover |-> turnover, cap |-> cap, open |-> open, close |-> close,
     industry |-> industry, qfq |-> qfq, ma20 |-> ma20, ma60 |-> ma60,
     vol |-> vol, vma5 |-> vma5]

Stock(i) ==
    LET k == ((i - 1) % 10) + 1
    IN CASE k = 1 -> StockRow(i, <<6, 0, 0>>, <<"A", "B">>, "main", 979, 1500, 50, 1000, 1100, "bank", 1100, 1200, 1000, 9, 8)
         [] k = 2 -> StockRow(i, <<6, 0, 0>>, <<"C", "D">>, "main", 980, 500, 50, 1000, 1100, "tech", NULL, NULL, NULL, 5, NULL)
         [] k = 3 -> StockRow(i, <<3, 0, 0>>, <<"E", "F">>, "growth", 1979, 1200, 80, 1000, 1200, "tech", 1000, 1200, 900, 5, 8)
         [] k = 4 -> StockRow(i, <<6, 8, 8>>, <<"G", "H">>, "growth", 1980, 300, 80, 1000, 1200, "tech", 1000, 1200, 900, 5, 8)
         [] k = 5 -> StockRow(i, <<8, 3, 0>>, <<"I", "J">>, "bse", 2979, 300, 20, 1000, 1300, "bank", 1000, 1200, 900, 5, 8)
         [] k = 6 -> StockRow(i, <<4, 3, 0>>, <<"K", "L">>, "bse", 2980, 300, 20, 1000, 1300, "bank", 1000, 1200, 900, 5, 8)
         [] k = 7 -> StockRow(i, <<6, 0, 0>>, <<"S", "T", "A">>, "st", 479, 300, 30, 1000, 1050, "bank", 1000, 1200, 900, 5, 8)
         [] k = 8 -> StockRow(i, <<0, 0, 0>>, <<"*", "s", "t", "B">>, "st", 480, 300, 30, 1000, 1050, "tech", 1000, 1200, 900, 5, 8)
         [] k = 9 -> StockRow(i, <<6, 0, 0>>, <<"M", "N">>, "main", 1000, 900, 90, 1300, 1300, "tech", 1000, 1200, 900, 5, 8)
         [] k = 10 -> StockRow(i, <<0, 0, 0>>, NoName, "main", 1001, 800, 150, 1000, 1100, "bank", 1300, 1200, 900, 5, 8)

\* the snapshots: the first k rows, for every k
Snapshots == {{Stock(i) : i \in 1..k} : k \in 0..NumStocks}

\* ------------------------------------------------------------------------
\* The Step Tracker and the rules (rules/base.py, rules/rule_*.py)
\* ------------------------------------------------------------------------
\* What history_provider.get_history(code, days) can do for one symbol:
\* raise, return None, return a frame without the price columns, or return a
\* frame, of which the model keeps what the checks read: its length, the
\* last adjusted close, the adjusted close about 80 sessions back, the
\* highest high of the last 21 rows, the last ma60 / ma20 / 成交量 / vma5 and
\* the last value of calc_ma(hist, ma_period). The last adjusted close is
\* NaN when the last stored row has no adjustment factor.
HistFrame(len, now, ago, high, ma60, ma20, vol, vma5, ma) ==
    [kind |-> "frame", len |-> len, now |-> now, ago |-> ago, high |-> high,
     ma60 |-> ma60, ma20 |-> ma20, vol |-> vol, vma5 |-> vma5, ma |-> ma]

HistAnswers ==
    {[kind |-> "raise"], [kind |-> "none"], [kind |-> "malformed"],
     HistFrame(30, 1500, 1000, 1700, NULL, 1700, 5, 8, 1000),
     HistFrame(120, 1500, 1000, 1700, 1400, 1700, 5, 8, 1000),
     HistFrame(120, 1500, 1400, 1550, 1400, 1700, 5, 8, 1600),
     HistFrame(120, NULL, 1000, 1700, 1400, 1700, 5, 8, 1000)}

\* RuleDragonPullback._check_history_conditions; a comparison with a NaN
\* operand is False, so a NaN price fails none of the price tests
check_history_conditions(hist, p) ==
    IF hist.kind = "malformed" THEN "raise"
    ELSE IF hist.len < 60 THEN "fail"
    ELSE IF (IF hist.ago # NULL /\ hist.ago > 0
               THEN hist.now # NULL /\ (hist.now - hist.ago) * 100 < p.min_4m_change * hist.ago
               ELSE 0 < p.min_4m_change) THEN "fail"
    ELSE IF (IF hist.high # NULL /\ hist.high > 0
               THEN hist.now # NULL /\ (hist.now - hist.high) * 100 > p.max_1m_change * hist.high
               ELSE 0 > p.max_1m_change) THEN "fail"
    ELSE IF Le(hist.now, hist.ma60) \/ Ge(hist.now, hist.ma20) THEN "fail"
    ELSE IF hist.now # NULL /\ hist.ma60 # NULL /\ hist.ma20 # NULL
            /\ hist.now - hist.ma60 >= hist.ma20 - hist.now THEN "fail"
    ELSE IF Ge(hist.vol, hist.vma5) THEN "fail"
    ELSE "pass"

\* the body of the per-symbol loop of RuleDragonPullback.apply for one row:
\* "rejected" when the row's own indicators rule it out before the provider
\* is asked, "raise" when the try block raises
DragonCheck(x, has_ind, hist, p) ==
    IF has_ind /\ (Le(x.qfq, x.ma60) \/ Ge(x.qfq, x.ma20)) THEN "rejected"
    ELSE IF has_ind /\ x.qfq # NULL /\ x.ma60 # NULL /\ x.ma20 # NULL
            /\ x.qfq - x.ma60 >= x.ma20 - x.qfq THEN "rejected"
    ELSE IF has_ind /\ Ge(x.vol, x.vma5) THEN "rejected"
    ELSE IF hist.kind = "raise" THEN "raise"
    ELSE IF hist.kind = "none" THEN "fail"
    ELSE check_history_conditions(hist, p)

\* the row gets as far as the get_history call
DragonAsks(x, has_ind) ==
    DragonCheck(x, has_ind, [kind |-> "none"], <<>>) # "rejected"

SmallCapAsks(x, has_ind, provider) == provider /\ ~(has_ind /\ x.ma20 # NULL)

\* the body of the per-symbol loop of RuleSmallCapLimitUp.apply for one row
SmallCapCheck(x, has_ind, provider, hist, p) ==
    LET own == has_ind /\ x.ma20 # NULL
        ask == ~own /\ provider
        ma_val == IF own THEN x.ma20
                  ELSE IF ask /\ hist.kind = "frame" /\ hist.len >= p.ma_period THEN hist.ma
                  ELSE NULL
    IN IF ask /\ hist.kind = "raise" THEN "raise"
       ELSE IF ask /\ hist.kind = "malformed" THEN "raise"
       ELSE IF ma_val # NULL /\ ma_val > 0 /\ x.close # NULL
               /\ (x.close - ma_val) * 10000 >= p.ma_dist_pct * ma_val THEN "pass"
       ELSE "fail"

Rules == {"dragon_pullback", "small_cap_limit_up", "industry_theme"}

RuleParams(exclude_exchanges, exclude_st, exclude_one_word, ma_dist_pct, industries, keywords) ==
    [exclude_exchanges |-> exclude_exchanges, exclude_st |-> exclude_st,
     exclude_one_word |-> exclude_one_word, ma_dist_pct |-> ma_dist_pct,
     industries |-> industries, keywords |-> keywords,
     min_4m_change |-> 50, max_1m_change |-> -10, ma_period |-> 20]

\* the parameters an instance is constructed with: the defaults and one
\* other setting per rule
ParamsOf(rule) ==
    CASE rule = "dragon_pullback" ->
            {RuleParams({"STAR", "BSE"}, TRUE, FALSE, 100, {}, ""),
             RuleParams({"ChiNext", "STAR", "BSE"}, FALSE, FALSE, 100, {}, "")}
      [] rule = "small_cap_limit_up" ->
            {RuleParams({"STAR", "BSE"}, TRUE, FALSE, 100, {}, ""),
             RuleParams({"STAR", "BSE"}, TRUE, TRUE, 0, {}, "")}
      [] rule = "industry_theme" ->
            {RuleParams({}, TRUE, FALSE, 100, {}, ""),
             RuleParams({"BSE"}, FALSE, FALSE, 100, {"tech"}, "bank"),
             RuleParams({}, TRUE, FALSE, 100, {}, "tech")}

\* max_turnover of the rule, max / min market cap (1e8 yuan), change range
MaxTurnover(rule) ==
    CASE rule = "dragon_pullback" -> 1300 [] rule = "small_cap_limit_up" -> 1000
      [] rule = "industry_theme" -> 2000

MaxMarketCap(rule) == IF rule = "small_cap_limit_up" THEN 100 ELSE 1000

\* StepResult
StepResult(step_name, before_count, after_count) ==
    [step_name |-> step_name, before_count |-> before_count, after_count |-> after_count,
     filtered_count |-> before_count - after_count]

\* Mutant of TrackerStart: the steps of the previous run are kept.
TrackerStartKeepsSteps(frame) ==
    [steps |-> ru_steps, current |-> Cardinality(frame)]

\* StepTracker.start
TrackerStart(frame) ==
    [steps |-> <<>>, current |-> Cardinality(frame)]

\* Mutant of TrackerRecord: _current_count is not moved on.
TrackerRecordStale(step_name, frame) ==
    [steps |-> Append(ru_steps, StepResult(step_name, ru_current, Cardinality(frame))),
     current |-> ru_current]

\* StepTracker.record
TrackerRecord(step_name, frame) ==
    [steps |-> Append(ru_steps, StepResult(step_name, ru_current, Cardinality(frame))),
     current |-> Cardinality(frame)]

InitRulesIdle ==
    /\ ru_rule = "none"
    /\ ru_params = RuleParams({}, TRUE, FALSE, 0, {}, "")
    /\ ru_pc = "idle"
    /\ ru_df = {}
    /\ ru_provider = FALSE
    /\ ru_has_ind = FALSE
    /\ ru_result = {}
    /\ ru_steps = <<>>
    /\ ru_current = 0
    /\ ru_stages = <<>>
    /\ ru_outcome = {}
    /\ ru_asked = {}
    /\ ru_runs = 0

\* get_rule(name) and the parameters set on the instance
InitRules ==
    /\ ru_rule \in Rules
    /\ ru_params \in ParamsOf(ru_rule)
    /\ ru_pc = "idle"
    /\ ru_df = {}
    /\ ru_provider = FALSE
    /\ ru_has_ind = FALSE
    /\ ru_result = {}
    /\ ru_steps = <<>>
    /\ ru_current = 0
    /\ ru_stages = <<>>
    /\ ru_outcome = {}
    /\ ru_asked = {}
    /\ ru_runs = 0

FirstStage ==
    CASE ru_rule = "dragon_pullback" -> "d_exchange"
      [] ru_rule = "small_cap_limit_up" -> "s_limit_up"
      [] ru_rule = "industry_theme" ->
            IF ru_params.industries # {} THEN "i_industry"
            ELSE IF ru_params.keywords # "" THEN "i_keyword"
            ELSE "i_st"

\* apply(df, history_provider=...): result = df.copy(); self.tracker.start(result)
Apply(frame, provider, has_ind) ==
    /\ UNCHANGED notRules
    /\ ru_pc \in {"idle", "returned"}
    /\ ru_runs < MaxApply
    /\ ru_runs' = ru_runs + 1
    /\ ru_df' = frame
    /\ ru_provider' = provider
    /\ ru_has_ind' = has_ind
    /\ ru_result' = frame
    /\ ru_steps' = TrackerStart(frame).steps
    /\ ru_current' = TrackerStart(frame).current
    /\ ru_stages' = <<>>
    /\ ru_outcome' = {}
    /\ ru_asked' = {}
    /\ ru_pc' = FirstStage
    /\ UNCHANGED <<ru_rule, ru_params>>

\* one stage of a rule: result = <filter>(result); self.tracker.record(name, result)
Stage(from, to, step_name, frame) ==
    /\ UNCHANGED notRules
    /\ ru_pc = from
    /\ ru_result' = frame
    /\ ru_steps' = TrackerRecord(step_name, frame).steps
    /\ ru_current' = TrackerRecord(step_name, frame).current
    /\ ru_stages' = Append(ru_stages, [name |-> step_name, removed |-> ru_result \ frame])
    /\ ru_pc' = to
    /\ UNCHANGED <<ru_rule, ru_params, ru_df, ru_provider, ru_has_ind, ru_runs, ru_asked>>

\* ---- RuleDragonPullback.apply ----
DragonExchange ==
    /\ Stage("d_exchange", "d_st", "exclude_exchanges",
             filter_by_exchange(ru_result, ru_params.exclude_exchanges))
    /\ UNCHANGED ru_outcome

DragonST ==
    /\ Stage("d_st", "d_turnover", "exclude_st", filter_by_st(ru_result, ru_params.exclude_st))
    /\ UNCHANGED ru_outcome

DragonTurnover ==
    /\ Stage("d_turnover", IF ru_provider THEN "d_history" ELSE "d_no_history", "turnover",
             filter_by_turnover(ru_result, NULL, MaxTurnover(ru_rule)))
    /\ UNCHANGED ru_outcome

\* if history_provider is None: record the skipped check and return
DragonNoHistory ==
    /\ Stage("d_no_history", "returned", "history_check", ru_result)
    /\ UNCHANGED ru_outcome

\* Mutant of Pending: the loop goes over the rows of df, not of result.
PendingOfSnapshot == {x \in ru_df : \A o \in ru_outcome : o[1] # x.code}

\* the rows the per-symbol loop has not visited yet, and the next one in
\* frame order
Pending == {x \in ru_result : \A o \in ru_outcome : o[1] # x.code}

RowIndex(x) == x.code[Len(x.code) - 1] * 10 + x.code[Len(x.code)]

NextRow == CHOOSE x \in Pending : \A y \in Pending : RowIndex(x) <= RowIndex(y)

\* one iteration of a per-symbol loop, which ended as `ended`, having called
\* get_history (answered by `hist`) or not
LoopRow(at, ended, asks, hist) ==
    /\ UNCHANGED notRules
    /\ ru_pc = at
    /\ Pending # {}
    /\ ru_outcome' = ru_outcome \cup {<<NextRow.code, ended>>}
    /\ ru_asked' = IF asks THEN ru_asked \cup {<<NextRow.code, hist>>} ELSE ru_asked
    /\ UNCHANGED <<ru_rule, ru_params, ru_pc, ru_df, ru_provider, ru_has_ind, ru_runs,
                   ru_result, ru_steps, ru_current, ru_stages>>

\* Mutant of DragonHistoryRow: no try/except around the body of the loop.
DragonHistoryRowNoCatch ==
    /\ Pending # {}
    /\ \E hist \in HistAnswers :
       IF DragonCheck(NextRow, ru_has_ind, hist, ru_params) = "raise"
         THEN /\ UNCHANGED notRules
              /\ ru_pc = "d_history"
              /\ ru_pc' = "raised"
              /\ UNCHANGED <<ru_rule, ru_params, ru_df, ru_provider, ru_has_ind, ru_runs,
                             ru_result, ru_steps, ru_current, ru_stages, ru_outcome, ru_asked>>
         ELSE LoopRow("d_history", DragonCheck(NextRow, ru_has_ind, hist, ru_params),
               DragonAsks(NextRow, ru_has_ind), hist)

\* for _, row in result.iterrows(): try: ... except Exception: continue
DragonHistoryRow ==
    \E hist \in HistAnswers :
       LoopRow("d_history", DragonCheck(NextRow, ru_has_ind, hist, ru_params),
               DragonAsks(NextRow, ru_has_ind), hist)

\* result = result[result['代码'].isin(valid_codes)]; the final record
DragonHistoryDone ==
    /\ Pending = {}
    /\ Stage("d_history", "returned", "dragon_pullback",
             {x \in ru_result : <<x.code, "pass">> \in ru_outcome})
    /\ UNCHANGED ru_outcome

\* ---- RuleSmallCapLimitUp.apply ----
SmallLimitUp ==
    /\ Stage("s_limit_up", IF ru_params.exclude_one_word THEN "s_one_word" ELSE "s_turnover",
             "limit_up", filter_by_limit_up(ru_result))
    /\ UNCHANGED ru_outcome

SmallOneWord ==
    /\ Stage("s_one_word", "s_turnover", "not_one_word", filter_by_not_one_word(ru_result))
    /\ UNCHANGED ru_outcome

SmallTurnover ==
    /\ Stage("s_turnover", "s_exchange", "turnover",
             filter_by_turnover(ru_result, NULL, MaxTurnover(ru_rule)))
    /\ UNCHANGED ru_outcome

SmallExchange ==
    /\ Stage("s_exchange", "s_st", "exclude_exchanges",
             filter_by_exchange(ru_result, ru_params.exclude_exchanges))
    /\ UNCHANGED ru_outcome

SmallST ==
    /\ Stage("s_st", "s_cap", "exclude_st", filter_by_st(ru_result, ru_params.exclude_st))
    /\ UNCHANGED ru_outcome

SmallMarketCap ==
    /\ Stage("s_cap", IF ru_params.ma_dist_pct > 0 THEN "s_ma" ELSE "returned", "market_cap",
             filter_by_market_cap(ru_result, NULL, MaxMarketCap(ru_rule)))
    /\ UNCHANGED ru_outcome

\* for idx, row in result.iterrows(): try: ... except Exception: continue
SmallMARow ==
    \E hist \in HistAnswers :
       LoopRow("s_ma", SmallCapCheck(NextRow, ru_has_ind, ru_provider, hist, ru_params),
               SmallCapAsks(NextRow, ru_has_ind, ru_provider), hist)

\* result = result.loc[valid_indices]; the final record
SmallMADone ==
    /\ Pending = {}
    /\ Stage("s_ma", "returned", "ma_distance",
             {x \in ru_result : <<x.code, "pass">> \in ru_outcome})
    /\ UNCHANGED ru_outcome

\* ---- RuleIndustryTheme.apply ----
IndustryIndustry ==
    /\ Stage("i_industry", IF ru_params.keywords # "" THEN "i_keyword" ELSE "i_st", "industry",
             filter_by_industry(ru_result, ru_params.industries))
    /\ UNCHANGED ru_outcome

\* the keyword is looked for in 名称 / 行业 / 主营业务 / 概念; of the rows
\* here only 行业 can hold it
IndustryKeyword ==
    /\ Stage("i_keyword", "i_st", "keyword",
             {x \in ru_result : x.industry = ru_params.keywords})
    /\ UNCHANGED ru_outcome

IndustryST ==
    /\ Stage("i_st", IF ru_params.exclude_exchanges # {} THEN "i_exchange" ELSE "i_cap",
             "exclude_st", filter_by_st(ru_result, ru_params.exclude_st))
    /\ UNCHANGED ru_outcome

IndustryExchange ==
    /\ Stage("i_exchange", "i_cap", "exclude_exchanges",
             filter_by_exchange(ru_result, ru_params.exclude_exchanges))
    /\ UNCHANGED ru_outcome

IndustryMarketCap ==
    /\ Stage("i_cap", "i_turnover", "market_cap",
             filter_by_market_cap(ru_result, 0, MaxMarketCap(ru_rule)))
    /\ UNCHANGED ru_outcome

IndustryTurnover ==
    /\ Stage("i_turnover", "i_change", "turnover",
             filter_by_turnover(ru_result, 0, MaxTurnover(ru_rule)))
    /\ UNCHANGED ru_outcome

IndustryChange ==
    /\ Stage("i_change", "returned", "change", filter_by_change(ru_result, -1000, 1000))
    /\ UNCHANGED ru_outcome

NextRules ==
    \/ \E frame \in Snapshots, provider \in BOOLEAN, has_ind \in BOOLEAN :
          Apply(frame, provider, has_ind)
    \/ DragonExchange
    \/ DragonST
    \/ DragonTurnover
    \/ DragonNoHistory
    \/ DragonHistoryRow
    \/ DragonHistoryDone
    \/ SmallLimitUp
    \/ SmallOneWord
    \/ SmallTurnover
    \/ SmallExchange
    \/ SmallST
    \/ SmallMarketCap
    \/ SmallMARow
    \/ SmallMADone
    \/ IndustryIndustry
    \/ IndustryKeyword
    \/ IndustryST
    \/ IndustryExchange
    \/ IndustryMarketCap
    \/ IndustryTurnover
    \/ IndustryChange

\* ------------------------------------------------------------------------
\* The Filter Library applied to snapshots (filters/atomic.py)
\* ------------------------------------------------------------------------
\* The rows the snapshots of the filter chains are made of: the codes
\* 300001, 688001, 430001, 600000 and 000001, a code starting with 8 that is
\* in none of the Beijing-exchange ranges, an ST name, a 92xxxx and a 301xxx
\* code. board is the category of the code, which no filter reads.
Listing(k) ==
    LET j == ((k - 1) % 9) + 1
        n == 10 * ((k - 1) \div 9)
    IN CASE j = 1 -> StockRow(n + 1, <<3, 0, 0>>, <<"A", "B">>, "growth", 1980, 500, 50, 1000, 1200, "tech", NULL, NULL, NULL, NULL, NULL)
         [] j = 2 -> StockRow(n + 1, <<6, 8, 8>>, <<"C", "D">>, "science", 1500, 1200, 80, 1000, 1000, "tech", NULL, NULL, NULL, NULL, NULL)
         [] j = 3 -> StockRow(n + 1, <<4, 3, 0>>, <<"E", "F">>, "bse", 2980, 400, 20, 1000, 1300, "bank", NULL, NULL, NULL, NULL, NULL)
         [] j = 4 -> StockRow(n, <<6, 0, 0>>, <<"G", "H">>, "main", 980, 200, 500, 1000, 1100, "bank", NULL, NULL, NULL, NULL, NULL)
         [] j = 5 -> StockRow(n + 1, <<0, 0, 0>>, <<"I", "J">>, "main", 1000, 600, 90, 1100, 1100, "tech", NULL, NULL, NULL, NULL, NULL)
         [] j = 6 -> StockRow(n + 1, <<8, 1, 0>>, <<"K", "L">>, "other", 2000, 500, 60, 1000, 1200, "tech", NULL, NULL, NULL, NULL, NULL)
         [] j = 7 -> StockRow(n + 2, <<6, 0, 0>>, <<"*", "S", "T", "M">>, "main", 480, NULL, 30, 1000, 1050, "bank", NULL, NULL, NULL, NULL, NULL)
         [] j = 8 -> StockRow(n + 1, <<9, 2, 0>>, <<"N", "O">>, "bse", 2979, 500, 40, NULL, 1300, "tech", NULL, NULL, NULL, NULL, NULL)
         [] j = 9 -> StockRow(n + 1, <<3, 0, 1>>, NoName, "growth", 1979, 500, NULL, 1000, 1200, "bank", NULL, NULL, NULL, NULL, NULL)

Listings == {Listing(k) : k \in 1..NumListed}

\* the predicates with the parameters the chains fix for them
FilterNames ==
    {"exchange", "st", "turnover", "market_cap", "limit_up", "change", "not_one_word", "industry"}

ApplyFilter(name, frame) ==
    CASE name = "exchange" -> filter_by_exchange(frame, {"ChiNext", "STAR", "BSE"})
      [] name = "st" -> filter_by_st(frame, TRUE)
      [] name = "turnover" -> filter_by_turnover(frame, 300, 1000)
      [] name = "market_cap" -> filter_by_market_cap(frame, NULL, 100)
      [] name = "limit_up" -> filter_by_limit_up(frame)
      [] name = "change" -> filter_by_change(frame, 1000, 2000)
      [] name = "not_one_word" -> filter_by_not_one_word(frame)
      [] name = "industry" -> filter_by_industry(frame, {"tech"})

InitFiltersIdle ==
    /\ fl_S = {}
    /\ fl_cur = {}
    /\ fl_applied = <<>>

InitFilters ==
    /\ fl_S \in SUBSET Listings
    /\ fl_cur = fl_S
    /\ fl_applied = <<>>

\* result = <predicate>(result)
Chain(name) ==
    /\ UNCHANGED notFilters
    /\ Len(fl_applied) < MaxChain
    /\ fl_cur' = ApplyFilter(name, fl_cur)
    /\ fl_applied' = Append(fl_applied, name)
    /\ UNCHANGED fl_S

ChainExchange == Chain("exchange")

ChainST == Chain("st")

ChainTurnover == Chain("turnover")

ChainMarketCap == Chain("market_cap")

ChainLimitUp == Chain("limit_up")

ChainChange == Chain("change")

ChainNotOneWord == Chain("not_one_word")

ChainIndustry == Chain("industry")

NextFilters ==
    \/ ChainExchange
    \/ ChainST
    \/ ChainTurnover
    \/ ChainMarketCap
    \/ ChainLimitUp
    \/ ChainChange
    \/ ChainNotOneWord
    \/ ChainIndustry

Init == InitLock /\ InitRemote /\ InitRecomputeIdle /\ InitRulesIdle /\ InitFiltersIdle /\ \E store \in InitialStores : InitSync(store)

Spec == Init /\ [][NextSync]_vars

InitAtRest == InitLock /\ InitRemote /\ InitRecomputeIdle /\ InitRulesIdle /\ InitFiltersIdle /\ InitSync(EmptyBag)

SpecLock == InitAtRest /\ [][NextLock]_vars

SpecRemote == InitAtRest /\ [][NextRemote]_vars

\* run_full_sync runs in its own process: a sleep, a probe and an item call
\* each return, so the run keeps taking steps until it has returned.
SpecRemoteLive == SpecRemote /\ WF_vars(NextRemote)

InitStored == InitLock /\ InitRemote /\ InitSync(EmptyBag) /\ InitRulesIdle /\ InitFiltersIdle /\ InitRecompute

SpecRecompute == InitStored /\ [][NextRecompute]_vars

InitScreener == InitLock /\ InitRemote /\ InitSync(EmptyBag) /\ InitRecomputeIdle /\ InitFiltersIdle /\ InitRules

InitChains == InitLock /\ InitRemote /\ InitSync(EmptyBag) /\ InitRecomputeIdle /\ InitRulesIdle /\ InitFilters

SpecFilters == InitChains /\ [][NextFilters]_vars

SpecRules == InitScreener /\ [][NextRules]_vars

\* C3: a sync call that acquired the lease has released it when the call
\* ends, whatever its exit path, so the lease is free for a later call.
C3_LeaseReleasedOnExit ==
    pc = "idle" => lease # "self"

C3_ExceptionThenNextHolder ==
    pc = "idle" /\ outcome = "exception" /\ upserted # {} /\ lease = "other"

\* C5: after request_stop() arrived while the run was in its per-date loop,
\* the run fetches and upserts no date but the one in progress, and the rows
\* of the dates upserted before the stop stay in the store as written.
C5_StopEndsTheLoop ==
    (stop_at # NoStop /\ stop_at.at = "loop") =>
        /\ fetched \subseteq stop_at.fetched \cup stop_at.inprog
        /\ upserted \subseteq stop_at.upserted \cup stop_at.inprog
        /\ \A x \in stop_at.rows : \E y \in DOMAIN db : Raw(y) = x

C5_CancelledWithDatesLeft ==
    /\ stop_at # NoStop
    /\ stop_at.at = "loop"
    /\ pc = "idle"
    /\ outcome = "cancelled"
    /\ stop_at.rows # {}
    /\ \E d \in SeqSet(trading_days) : d \notin fetched

\* C6 as stated: with force=false a sync run fetches exactly the calendar
\* dates of the range that had no record with a non-null factor, and does
\* not rewrite the others.
C6_FetchesExactlyIncomplete ==
    (pc = "idle" /\ ~force /\ filtered) =>
        /\ fetched = calendar \ CompleteDates(db_before)
        /\ upserted \cap CompleteDates(db_before) = {}

\* C6 amended: with force=false a run fetches only calendar dates of the
\* range that had no record with a non-null factor, and all of them when it
\* is neither cancelled nor ended by an exception; the records of the other
\* dates are neither fetched nor rewritten.
C6_FetchesOnlyIncomplete ==
    (~force /\ filtered) =>
        /\ fetched \subseteq calendar \ CompleteDates(db_before)
        /\ upserted \cap CompleteDates(db_before) = {}
        /\ \A x \in DOMAIN db_before :
              x.date \in CompleteDates(db_before) => \E y \in DOMAIN db : Raw(y) = Raw(x)
        /\ (pc = "idle" /\ outcome \in {"completed", "all_complete"}) =>
              fetched = calendar \ CompleteDates(db_before)

C6_MixedRangeCompleted ==
    /\ pc = "idle"
    /\ ~force
    /\ outcome = "completed"
    /\ calendar \cap CompleteDates(db_before) # {}
    /\ upserted # {}

\* C7: with force=true the stored records are deleted before the first
\* fetch, so from then on every stored record belongs to a date fetched in
\* this run.
C7_ForceRebuild ==
    (force /\ filtered) => \A x \in DOMAIN db : x.date \in fetched

C7_ForcedRunDroppedOldDate ==
    /\ force
    /\ pc = "idle"
    /\ outcome = "completed"
    /\ db # EmptyBag
    /\ \E x \in DOMAIN db_before : x.date \notin fetched

\* C8: a reader of the committed table sees, for every date the run
\* ingests, all rows the run merged for the date or none of them.
C8_DateVisibleWhole ==
    \A d \in fetched :
        LET seen == {k[2] : k \in {x \in run_written : x[1] = d}}
        IN seen = {} \/ seen = merged[d]

C8_MidTransaction ==
    /\ pc = "save_rows"
    /\ row_k > 1
    /\ row_k <= Len(df)
    /\ txn # db

\* C9: the store holds at most one record per (trade_date, symbol), and
\* applying a batch of merged rows a second time leaves the table as it was
\* after the first time.
C9_UpsertKeyedIdempotent ==
    /\ \A x \in DOMAIN db :
          /\ db[x] = 1
          /\ \A y \in DOMAIN db : Key(x) = Key(y) => x = y
    /\ \A d \in Dates, ans \in RemoteAnswers :
          LET rows == fetch_and_merge_by_date(d, ans)
              once == save_to_database(db, rows)
          IN /\ save_to_database(once, rows) = once
             /\ BagCardinality(save_to_database(once, rows)) = BagCardinality(once)

C9_KeyOverwritten ==
    /\ pc = "idle"
    /\ outcome = "completed"
    /\ \E x \in DOMAIN db_before, y \in DOMAIN db : Key(x) = Key(y) /\ Raw(x) # Raw(y)

\* C10: whenever the periodic health probe failed or the consecutive
\* failures reached the threshold, the run sleeps for the cooldown and then
\* probes again before it processes any further item.
C10_ProbeBetweenCooldownAndItem ==
    rf_pc = "item" => rf_cooled = 0


\* C11: a per-date fetch that fails (the frame comes back empty) is tried
\* again within the same run before the run moves on to the next date.
C11_FailedFetchRetried ==
    [][(pc = "fetch" /\ df' = <<>>) => pc' = "fetch"]_vars


\* C12: every run terminates: the loop index only moves forward, one code
\* at a time, so that each pending code is processed at most once and the
\* cooldowns are finitely many, and the run ends by returning.
C12_RunTerminates ==
    /\ <>(rf_pc = "done")
    /\ [][/\ rf_i' \in {rf_i, rf_i + 1}
          /\ rf_pc' = "head" => rf_i' = rf_i + 1
          /\ rf_pc = "done" => rf_pc' = "done"]_vars

\* a run that went through a cooldown, found the source still unhealthy
\* and returned
C12_AbortedAfterCooldown ==
    rf_pc = "done" /\ rf_end = "aborted" /\ rf_i < NumPending


\* C13: when a date is ingested, every symbol that one of the three sources
\* (daily, daily_basic, adj_factor) has a row for is stored as a record of
\* that date, with NULL in the fields whose source has no row for it.
C13_EverySourceSymbolStored ==
    [][(pc = "save_rows" /\ pc' = "progress") =>
          \A ans \in RemoteAnswers :
             df = fetch_and_merge_by_date(trading_days[idx], ans) =>
                \A c \in Symbols :
                   (ans.daily[c] # NULL \/ ans.basic[c] # NULL \/ ans.adj[c] # NULL) =>
                      \E x \in DOMAIN db' :
                         /\ Key(x) = <<trading_days[idx], c>>
                         /\ x.close = ans.daily[c]
                         /\ x.pe = ans.basic[c]
                         /\ x.factor = ans.adj[c]]_vars


\* C14: after a completed recompute every record with a close and a factor
\* has qfq = round(close * factor / base), base being the factor of the
\* symbol's latest record that has one; and a symbol whose base did not
\* change keeps every row that was already computed.
C14_AdjustedOnLatestFactor ==
    rc_result = "ok" =>
        \A c \in Symbols :
            LET rows == RowsOf(rc_table, c)
                valid == {x \in rows : x.factor # NULL}
                latest == CHOOSE x \in valid : \A y \in valid : y.date <= x.date
                old == {x \in RowsOf(rc_before, c) : x.qfq # NULL}
                oldvalid == {x \in old : x.factor # NULL}
                oldlatest == CHOOSE x \in oldvalid : \A y \in oldvalid : y.date <= x.date
            IN /\ \A x \in rows :
                    (x.close # NULL /\ x.factor # NULL) =>
                        x.qfq = RoundDiv(x.close * x.factor, latest.factor)
               /\ (oldvalid # {} /\ oldlatest.factor = latest.factor) =>
                    old \subseteq DOMAIN rc_table

\* one later date with a changed factor was ingested: the recompute changed
\* the adjusted close of symbol 1's first date, and left symbol 2's rows as
\* they were
C14_SplitRewroteHistory ==
    /\ rc_result = "ok"
    /\ \E x \in DOMAIN rc_before, y \in DOMAIN rc_table :
          /\ Key(x) = <<1, 1>> /\ Key(y) = <<1, 1>>
          /\ x.qfq = x.close /\ x.factor = 1
          /\ y.qfq = RoundDiv(y.close, 3) /\ y.qfq # x.qfq
    /\ \E z \in DOMAIN rc_before : z.code = 2 /\ z.qfq # NULL /\ z \in DOMAIN rc_table


\* sum of the stored adjusted closes of the records lo..hi of a history
RECURSIVE C15_SumStored(_, _, _)
C15_SumStored(h, lo, hi) ==
    IF lo > hi THEN 0 ELSE h[lo].qfq + C15_SumStored(h, lo + 1, hi)

\* C15: after a completed recompute, for every record and every window n of
\* 5, 10, 20, 60: ma_n is NULL when the record is among the first n-1
\* records of its symbol in date order, and otherwise the rounded mean of
\* the symbol's n adjusted closes ending at the record.
C15_MovingAverages ==
    rc_result = "ok" =>
        \A c \in Symbols :
            LET h == History(rc_table, c)
            IN \A i \in 1..Len(h), n \in Windows :
                  MaOf(h[i], n) = IF i < n THEN NULL
                                  ELSE RoundDiv(C15_SumStored(h, i - n + 1, i), n)

\* symbol 1 has a defined ma60 and an undefined one, symbol 2 (six records
\* among symbol 1's sixty) has a defined ma5 and no ma10
C15_WindowsFilledAndNot ==
    /\ rc_result = "ok"
    /\ \E x \in DOMAIN rc_table : x.code = 1 /\ x.ma60 # NULL /\ x.ma60 # x.ma5
    /\ \E x \in DOMAIN rc_table : x.code = 1 /\ x.ma60 = NULL /\ x.ma20 # NULL
    /\ \E x \in DOMAIN rc_table : x.code = 2 /\ x.ma5 = 2000 /\ x.ma10 = NULL
    /\ \E x \in DOMAIN rc_table : x.code = 2 /\ x.ma5 = NULL


\* C16: a recompute call, completed or failed, leaves the set of records
\* and every raw column as they were; a failed call leaves every derived
\* column as it was, too.
C16_RecomputeKeepsRaw ==
    rc_result # "none" =>
        /\ {Raw(x) : x \in DOMAIN rc_table} = {Raw(x) : x \in DOMAIN rc_before}
        /\ BagCardinality(rc_table) = BagCardinality(rc_before)
        /\ rc_result = "failed" => rc_table = rc_before

\* a failed recompute after a date was ingested: the new rows have no
\* derived values, the old ones keep theirs
C16_FailedLeavesStale ==
    /\ rc_result = "failed"
    /\ \E x \in DOMAIN rc_table : x.qfq = NULL
    /\ \E x \in DOMAIN rc_table : x.qfq # NULL /\ x.ma20 # NULL


\* ------------------------------------------------------------------------
\* Claims about the step tracker and the rules (SpecRules)
\* ------------------------------------------------------------------------
RECURSIVE C17_SumFiltered(_)
C17_SumFiltered(steps) ==
    IF steps = <<>> THEN 0
    ELSE steps[1].filtered_count + C17_SumFiltered(Tail(steps))

\* C17: when a rule run has returned, the filtered_count of its recorded
\* steps add up to the row count of the snapshot the run started with minus
\* the row count of the returned result.
C17_StepsConserveRows ==
    ru_pc = "returned" =>
        C17_SumFiltered(ru_steps) = Cardinality(ru_df) - Cardinality(ru_result)

\* a returned run of several steps, two of which removed rows, with rows left
C17_SeveralStagesRemoved ==
    /\ ru_pc = "returned"
    /\ ru_result # {}
    /\ \E j, k \in DOMAIN ru_steps :
          j < k /\ ru_steps[j].filtered_count > 0 /\ ru_steps[k].filtered_count > 0

\* C18: the steps of the tracker are, in order, the filtering stages the
\* current run has performed, one step per stage, whatever the stage removed
\* and whatever the size of the snapshot; the rows missing from the result
\* are exactly the rows those stages removed; steps of earlier runs are gone.
C18_OneStepPerStage ==
    ru_pc # "idle" =>
        /\ Len(ru_steps) = Len(ru_stages)
        /\ \A k \in DOMAIN ru_stages :
              /\ ru_steps[k].step_name = ru_stages[k].name
              /\ ru_steps[k].filtered_count = Cardinality(ru_stages[k].removed)
        /\ ru_df \ ru_result = UNION {ru_stages[k].removed : k \in DOMAIN ru_stages}
        /\ ru_pc = "returned" => ru_steps # <<>>

\* the second run of an instance, on the empty snapshot, after a first run
\* that had returned: every stage is recorded and none removed a row
C18_SecondRunOnEmpty ==
    /\ ru_pc = "returned"
    /\ ru_runs = 2
    /\ ru_df = {}
    /\ Len(ru_steps) >= 3
    /\ \A k \in DOMAIN ru_steps : ru_steps[k].filtered_count = 0

\* C19: an exception in the per-symbol check of one symbol never leaves
\* apply; the symbol is not in the result; every candidate of the stage has
\* been evaluated when the stage is recorded, the others with an outcome
\* their own row and history give, and those that passed are the result.
C19_SymbolFailureIsolated ==
    /\ ru_pc # "raised"
    /\ (ru_pc = "returned" /\ ru_outcome # {}) =>
          LET last == ru_stages[Len(ru_stages)]
              candidates == ru_result \cup last.removed
          IN /\ \A x \in candidates : \E o \in ru_outcome : o[1] = x.code
             /\ \A x \in candidates :
                   <<x.code, "raise">> \in ru_outcome => x \notin ru_result
             /\ \A x \in candidates :
                   (x \in ru_result) <=> (<<x.code, "pass">> \in ru_outcome)
             /\ \A x \in candidates : \A o \in ru_outcome :
                   (o[1] = x.code /\ o[2] # "raise") =>
                       \E hist \in HistAnswers :
                          o[2] = IF ru_rule = "dragon_pullback"
                                   THEN DragonCheck(x, ru_has_ind, hist, ru_params)
                                   ELSE SmallCapCheck(x, ru_has_ind, ru_provider, hist, ru_params)

\* a returned run in which the check of one symbol raised and a symbol
\* later in the frame passed and is in the result
C19_RaiseThenPass ==
    /\ ru_pc = "returned"
    /\ \E x \in ru_result : \E o \in ru_outcome :
          /\ o[2] = "raise"
          /\ o[1][Len(o[1]) - 1] * 10 + o[1][Len(o[1])] < RowIndex(x)
          /\ <<x.code, "pass">> \in ru_outcome

C21_ExcludedBoardsRemoved ==
    fl_applied = <<"exchange">> =>
        fl_cur = {x \in fl_S : x.board \notin {"growth", "science", "bse"}}

\* the snapshot of 300001, 688001, 430001, 600000 and 000001 went through
\* the filter and 600000 and 000001 are what is left
C21_FiveCodes ==
    /\ fl_applied = <<"exchange">>
    /\ {x.code : x \in fl_S} = {<<3, 0, 0, 0, 0, 1>>, <<6, 8, 8, 0, 0, 1>>, <<4, 3, 0, 0, 0, 1>>,
                                <<6, 0, 0, 0, 0, 0>>, <<0, 0, 0, 0, 0, 1>>}
    /\ {x.code : x \in fl_cur} = {<<6, 0, 0, 0, 0, 0>>, <<0, 0, 0, 0, 0, 1>>}

RECURSIVE C23_InOrder(_, _)
C23_InOrder(names, frame) ==
    IF names = <<>> THEN frame
    ELSE C23_InOrder(Tail(names), ApplyFilter(Head(names), frame))

RECURSIVE C23_Reversed(_)
C23_Reversed(names) ==
    IF names = <<>> THEN <<>> ELSE Append(C23_Reversed(Tail(names)), Head(names))

\* C23: the frame a chain of predicates returns is a subset of the snapshot
\* it started from, made of the snapshot's own rows, and is the frame the
\* same predicates return when applied in the opposite order; no predicate
\* adds a row to the frame it is given.
C23_FiltersCommuteAndShrink ==
    /\ [](/\ fl_cur \subseteq fl_S
          /\ fl_cur = C23_InOrder(C23_Reversed(fl_applied), fl_S))
    /\ [][fl_cur' \subseteq fl_cur]_vars

\* two different predicates were applied, each of which removes rows the
\* other keeps, and rows are left
C23_TwoPredicatesBothRemoved ==
    /\ Len(fl_applied) = 2
    /\ fl_applied[1] # fl_applied[2]
    /\ fl_cur # {}
    /\ ApplyFilter(fl_applied[1], fl_S) \ ApplyFilter(fl_applied[2], fl_S) # {}
    /\ ApplyFilter(fl_applied[2], fl_S) \ ApplyFilter(fl_applied[1], fl_S) # {}

\* C29: filter_by_limit_up and filter_by_exchange put every code in the
\* same board: a code gets the 29.8 threshold exactly when excluding the
\* Beijing exchange removes it, and the 19.8 threshold exactly when
\* excluding the growth and science boards removes it.
C29_BoardsAgree ==
    ("exchange" \in SeqSet(fl_applied) \/ "limit_up" \in SeqSet(fl_applied)) =>
        \A x \in fl_S :
            LET threshold == LimitUpThreshold([x EXCEPT !.name = NoName])
            IN /\ threshold = LIMIT_UP_BSE <=> filter_by_exchange({x}, {"BSE"}) = {}
               /\ threshold = LIMIT_UP_GROWTH <=>
                      filter_by_exchange({x}, {"ChiNext", "STAR"}) = {}


\* C24: with a history provider, every symbol of a returned Dragon Pullback
\* result has a history on which its adjusted close rose at least
\* min_4m_change percent over the lookback, fell at least |max_1m_change|
\* percent from the recent high, lies strictly between MA60 and MA20 and
\* closer to MA60, and on which the volume is below its 5-session average.
C24_ResultMeetsEveryCondition ==
    (ru_rule = "dragon_pullback" /\ ru_pc = "returned" /\ ru_provider) =>
        \A x \in ru_result : \E a \in ru_asked :
            /\ a[1] = x.code
            /\ a[2].kind = "frame"
            /\ a[2].now # NULL /\ a[2].ago # NULL /\ a[2].high # NULL
            /\ a[2].ma60 # NULL /\ a[2].ma20 # NULL /\ a[2].vol # NULL /\ a[2].vma5 # NULL
            /\ (a[2].now - a[2].ago) * 100 >= ru_params.min_4m_change * a[2].ago
            /\ (a[2].now - a[2].high) * 100 <= ru_params.max_1m_change * a[2].high
            /\ a[2].ma60 < a[2].now /\ a[2].now < a[2].ma20
            /\ a[2].now - a[2].ma60 < a[2].ma20 - a[2].now
            /\ a[2].vol < a[2].vma5

\* C25: in a Dragon Pullback run the first stages are the board exclusion,
\* the ST exclusion and the turnover filter, in this order, and every
\* get_history call is made after them, for a symbol they all kept.
C25_SnapshotFiltersFirst ==
    ru_rule = "dragon_pullback" =>
        /\ \A k \in DOMAIN ru_stages :
              k <= 3 => ru_stages[k].name = <<"exclude_exchanges", "exclude_st", "turnover">>[k]
        /\ ru_asked # {} =>
              /\ Len(ru_stages) >= 3
              /\ \A a \in ru_asked :
                    \E x \in filter_by_turnover(
                                 filter_by_st(
                                     filter_by_exchange(ru_df, ru_params.exclude_exchanges),
                                     ru_params.exclude_st),
                                 NULL, MaxTurnover(ru_rule)) : x.code = a[1]

\* a returned run in which each of the three filters removed a row, the
\* provider was asked about some survivors and not about others
C25_AskedSurvivorsOnly ==
    /\ ru_rule = "dragon_pullback"
    /\ ru_pc = "returned"
    /\ \A k \in 1..3 : ru_stages[k].removed # {}
    /\ ru_asked # {}
    /\ \E o \in ru_outcome : o[2] = "rejected"


\* ------------------------------------------------------------------------
\* Claims about the end of a sync run (Spec)
\* ------------------------------------------------------------------------
\* C22: the recomputation starts when nothing is being upserted and no
\* upsert follows it, the lease is released after it, and the final
\* SymbolMeta refresh is not followed by the recomputation (it comes after
\* the recomputation was triggered).
C22_RecomputeThenRefresh ==
    [][/\ (pc = "recompute" /\ pc' # pc) => (txn = NoTxn /\ pc' = "metadata")
       /\ (pc \in {"recompute", "metadata"}) => lease' = "self"
       /\ (pc = "basic" /\ pc' # pc) => pc' # "recompute"]_vars

\* C27: once request_stop() was called during a run before its per-date
\* loop, the run fetches no date and upserts no date.
C27_EarlyStopNotLost ==
    (stop_at # NoStop /\ stop_at.at = "before_loop") => (fetched = {} /\ upserted = {})

\* C28: a run that upserted a date and is about to release the lease has
\* been through the recomputation.
C28_RecomputedBeforeRelease ==
    (pc = "release" /\ upserted # {}) => outcome \in {"completed", "cancelled"}

\* C30: when the calendar gave no dates the call does nothing but release
\* the lease: the store is as it was before the call, whatever force is,
\* nothing is fetched or upserted, the recomputation is not reached, and the
\* lease is free once the call has returned.
C30_NoCalendarNoChange ==
    outcome = "calendar_failed" =>
        /\ pc \in {"release", "idle"}
        /\ db = db_before
        /\ fetched = {} /\ upserted = {} /\ trading_days = <<>>
        /\ pc = "idle" => lease # "self"

\* a forced call on a store with records has returned after the calendar
\* gave no dates
C30_ForcedCallKeptStore ==
    /\ outcome = "calendar_failed"
    /\ pc = "idle"
    /\ force
    /\ db # EmptyBag
    /\ lease = "none"



\* ------------------------------------------------------------------------
\* Claims about resuming run_full_sync (SpecRemote)
\* ------------------------------------------------------------------------
\* C26: when a run that was interrupted, or aborted after the cooldown, has
\* returned, the progress file covers every code the run processed, so that
\* the resumed run, which skips the completed codes of the file, skips every
\* code this run completed.
C26_ProgressKeptForResume ==
    (rf_pc = "done" /\ rf_end \in {"interrupted", "aborted"}) => rf_saved = rf_i

====
